---- MODULE Spec2Model ----
(***************************************************************************)
(* py-lists: the list repository, the field-type handlers and registry,    *)
(* and the persistence manager, modelled from src/app/*.py.                *)
(*                                                                         *)
(* Python objects are modelled as records whose DOMAIN is the set of       *)
(* attributes the object has.  The pydantic field models of                *)
(* field_types.py:31-65 declare `name`, `type` and (text only)             *)
(* `multiline`; they declare no `order`.  A pydantic v2 model with the     *)
(* default configuration raises AttributeError when an undeclared          *)
(* attribute is read and ValueError when one is assigned, and ignores      *)
(* undeclared keys when it is validated from JSON.                         *)
(***************************************************************************)
EXTENDS Integers, Sequences, FiniteSets, TLC

\* ------------------------------------------------------------------ bounds
\* uuid4() is modelled by a counter: the k-th identifier handed out is k, and
\* at most MaxUuids are handed out (to lists, fields and items together).
MaxUuids == 3
Uuids == 1..MaxUuids
\* an identifier that was never handed out
Unknown == 0
\* a List value handed to add() carries at most MaxSeedFields fields
MaxSeedFields == 2
\* the process is started (the repository constructed) at most MaxRuns times
MaxRuns == 3
\* the handlers' length and value constraints range up to MaxConstraint
MaxConstraint == 3

\* Optional values: None is <<>>, a present value x is <<x>>.
None == <<>>
Some(x) == <<x>>

\* ------------------------------------------------------- Python values
\* FieldValueType = str | bool | int.  A str is a tuple of characters.
PyBool(b) == [py |-> "bool", b |-> b]
PyInt(n) == [py |-> "int", n |-> n]
PyStr(s) == [py |-> "str", s |-> s]

\* isinstance(value, cls); bool is a subclass of int.
IsInstance(value, cls) ==
    CASE cls = "bool" -> value.py = "bool"
      [] cls = "int" -> value.py \in {"int", "bool"}
      [] cls = "str" -> value.py = "str"

\* int(value) of an int or a bool (True is 1, False is 0).
IntOf(value) == IF value.py = "bool" THEN (IF value.b THEN 1 ELSE 0) ELSE value.n

Whitespace == {" "}
LowerChar(c) ==
    CASE c = "H" -> "h" [] c = "T" -> "t" [] c = "P" -> "p" [] c = "S" -> "s"
      [] OTHER -> c
Lower(s) == [i \in 1..Len(s) |-> LowerChar(s[i])]
StripIsEmpty(s) == \A i \in 1..Len(s) : s[i] \in Whitespace
StartsWith(s, p) == Len(s) >= Len(p) /\ SubSeq(s, 1, Len(p)) = p
HttpPrefix == <<"h", "t", "t", "p", ":", "/", "/">>
HttpsPrefix == <<"h", "t", "t", "p", "s", ":", "/", "/">>

\* re.match(r"^https?://[^\s/$.?#].[^\s]*$", value, re.IGNORECASE)
UrlRest(s) ==
    IF StartsWith(Lower(s), HttpsPrefix) THEN SubSeq(s, Len(HttpsPrefix) + 1, Len(s))
    ELSE SubSeq(s, Len(HttpPrefix) + 1, Len(s))
UrlPatternMatches(s) ==
    /\ StartsWith(Lower(s), HttpPrefix) \/ StartsWith(Lower(s), HttpsPrefix)
    /\ LET r == UrlRest(s)
       IN /\ Len(r) >= 2
          /\ r[1] \notin (Whitespace \cup {"/", "$", ".", "?", "#"})
          /\ \A i \in 3..Len(r) : r[i] \notin Whitespace

\* ------------------------------------------------------- field handlers
Kinds == {"boolean", "text", "number", "url", "image"}

BooleanFieldHandler == [type_name |-> "boolean"]
TextFieldHandler(min_length, max_length, pattern) ==
    [type_name |-> "text", min_length |-> min_length, max_length |-> max_length,
     pattern |-> pattern]
NumberFieldHandler(min_value, max_value) ==
    [type_name |-> "number", min_value |-> min_value, max_value |-> max_value]
URLFieldHandler == [type_name |-> "url"]
ImageFieldHandler == [type_name |-> "image"]

\* handler.get_default_value()
HandlerDefault(h) ==
    CASE h.type_name = "boolean" -> PyBool(FALSE)
      [] h.type_name = "text" -> PyStr(<<>>)
      [] h.type_name = "number" ->
            IF h.min_value # None /\ h.min_value[1] > 0
            THEN PyInt(h.min_value[1]) ELSE PyInt(0)
      [] h.type_name = "url" -> PyStr(<<>>)
      [] h.type_name = "image" -> PyStr(<<>>)

\* URLFieldHandler.validate_value / ImageFieldHandler.validate_value (same code):
\* TRUE when the call returns, FALSE when it raises ValueError.
UrlValidate(value) ==
    /\ IsInstance(value, "str")
    /\ \/ StripIsEmpty(value.s)
       \/ /\ StartsWith(Lower(value.s), HttpPrefix) \/ StartsWith(Lower(value.s), HttpsPrefix)
          /\ UrlPatternMatches(value.s)

\* A regex pattern is modelled by the set of strings re.match accepts.
TextValidate(h, value) ==
    /\ IsInstance(value, "str")
    /\ ~(h.min_length # None /\ Len(value.s) < h.min_length[1])
    /\ ~(h.max_length # None /\ Len(value.s) > h.max_length[1])
    /\ ~(h.pattern # None /\ value.s \notin h.pattern[1])

NumberValidate(h, value) ==
    /\ IsInstance(value, "int")
    /\ ~(h.min_value # None /\ IntOf(value) < h.min_value[1])
    /\ ~(h.max_value # None /\ IntOf(value) > h.max_value[1])

BooleanValidate(value) == IsInstance(value, "bool")

\* handler.validate_value(value, field_id): TRUE iff it does not raise.
HandlerValidate(h, value) ==
    CASE h.type_name = "boolean" -> BooleanValidate(value)
      [] h.type_name = "text" -> TextValidate(h, value)
      [] h.type_name = "number" -> NumberValidate(h, value)
      [] h.type_name = "url" -> UrlValidate(value)
      [] h.type_name = "image" -> UrlValidate(value)

\* handler.create_field_instance(field_create): the pydantic field model,
\* with exactly the attributes its class declares.
HandlerCreate(h, req) ==
    IF h.type_name = "text"
    THEN [name |-> req.name, type |-> "text", multiline |-> req.multiline]
    ELSE [name |-> req.name, type |-> h.type_name]

\* ------------------------------------------------------------- registry
EmptyRegistry == [t \in {} |-> BooleanFieldHandler]
RegisterRaises(reg, h) == h.type_name \in DOMAIN reg
\* a register that replaces the handler of a type_name already registered
RegisterOverwrites(reg, h) ==
    [t \in DOMAIN reg \cup {h.type_name} |-> IF t = h.type_name THEN h ELSE reg[t]]
\* register: raises ValueError (and assigns nothing) for a type_name that is
\* registered, else self._handlers[type_name] = handler
Register(reg, h) ==
    IF RegisterRaises(reg, h) THEN reg
    ELSE [t \in DOMAIN reg \cup {h.type_name} |-> IF t = h.type_name THEN h ELSE reg[t]]

\* deps.get_field_registry(): the five built-in handlers, no constraints.
FieldRegistry ==
    Register(Register(Register(Register(Register(EmptyRegistry,
        BooleanFieldHandler),
        TextFieldHandler(None, None, None)),
        NumberFieldHandler(None, None)),
        URLFieldHandler),
        ImageFieldHandler)

GetHandlerRaises(reg, type_name) == type_name \notin DOMAIN reg
GetHandler(reg, type_name) == reg[type_name]
RegistryDefault(reg, field) == HandlerDefault(GetHandler(reg, field.type))
RegistryValidate(reg, field, value) ==
    /\ ~GetHandlerRaises(reg, field.type)
    /\ HandlerValidate(GetHandler(reg, field.type), value)
RegistryCreate(reg, req) == HandlerCreate(GetHandler(reg, req.type), req)

\* ------------------------------------------------- pydantic attributes
\* getattr(obj, a) raises AttributeError; setattr(obj, a, v) raises ValueError.
HasAttr(obj, a) == a \in DOMAIN obj
SetOrder(field, order) == [field EXCEPT !.order = order]

\* --------------------------------------------------------------- models
\* models.FieldValue and models.List; a dict is a function, iterated in
\* ascending key order (identifiers are handed out in increasing order, so
\* this is insertion order).
FieldValue(field_id, value) == [field_id |-> field_id, value |-> value]
EmptyDict == [k \in {} |-> 0]
List(id, name, fields, items) == [id |-> id, name |-> name, fields |-> fields, items |-> items]
DictPut(d, k, v) == [x \in DOMAIN d \cup {k} |-> IF x = k THEN v ELSE d[x]]
DictDel(d, k) == [x \in DOMAIN d \ {k} |-> d[x]]
SetMax(S, default) == IF S = {} THEN default ELSE CHOOSE m \in S : \A x \in S : x <= m

\* ----------------------------------------------------------------- JSON
JStr(s) == [js |-> "string", s |-> s]
JBool(b) == [js |-> "bool", b |-> b]
JNum(n) == [js |-> "number", n |-> n]

\* str(uuid) and UUID(text); UUID(text) raises ValueError on other text.
UuidStr(id) == <<"uuid", id>>
IsUuidStr(s) == Len(s) = 2 /\ s[1] = "uuid"
UuidOf(s) == s[2]
\* another spelling of the same UUID that UUID(text) accepts (upper case, no
\* hyphens, braces, urn:uuid:); str(UUID(text)) is UuidStr, not this
UuidUpper(id) == <<"UUID", id>>
\* UUID(text) does not raise
ParsesAsUuid(s) == Len(s) = 2 /\ s[1] \in {"uuid", "UUID"}

\* List.model_dump_json
DumpValue(v) ==
    CASE v.py = "bool" -> JBool(v.b)
      [] v.py = "int" -> JNum(v.n)
      [] v.py = "str" -> JStr(v.s)
DumpAttr(a, x) ==
    CASE a = "multiline" -> JBool(x)
      [] a = "order" -> JNum(x)
      [] OTHER -> JStr(x)
DumpField(f) == [a \in DOMAIN f |-> DumpAttr(a, f[a])]
DumpFieldValue(fv) == [field_id |-> JStr(UuidStr(fv.field_id)), value |-> DumpValue(fv.value)]
DumpList(l) ==
    [id |-> JStr(UuidStr(l.id)),
     name |-> JStr(l.name),
     fields |-> [k \in {UuidStr(f) : f \in DOMAIN l.fields} |-> DumpField(l.fields[UuidOf(k)])],
     items |-> [k \in {UuidStr(i) : i \in DOMAIN l.items} |->
                    [j \in 1..Len(l.items[UuidOf(k)]) |-> DumpFieldValue(l.items[UuidOf(k)][j])]]]

\* List.model_validate_json: the discriminated union picks the field class by
\* "type"; keys a class does not declare are ignored; multiline defaults to
\* False; a value is validated against str | bool | int.
ValueDocValid(j) == j.js \in {"string", "bool", "number"}
LoadValue(j) ==
    CASE j.js = "bool" -> PyBool(j.b)
      [] j.js = "number" -> PyInt(j.n)
      [] j.js = "string" -> PyStr(j.s)
FieldDocValid(fd) ==
    /\ "type" \in DOMAIN fd /\ fd.type.js = "string" /\ fd.type.s \in Kinds
    /\ "name" \in DOMAIN fd /\ fd.name.js = "string"
    /\ (fd.type.s = "text" /\ "multiline" \in DOMAIN fd) => fd.multiline.js = "bool"
\* a loader that forgets the text field's configuration
LoadFieldSingleLine(fd) ==
    IF fd.type.s = "text"
    THEN [name |-> fd.name.s, type |-> "text", multiline |-> FALSE]
    ELSE [name |-> fd.name.s, type |-> fd.type.s]
LoadField(fd) ==
    IF fd.type.s = "text"
    THEN [name |-> fd.name.s, type |-> "text",
          multiline |-> IF "multiline" \in DOMAIN fd THEN fd.multiline.b ELSE FALSE]
    ELSE [name |-> fd.name.s, type |-> fd.type.s]
ListDocValid(doc) ==
    /\ doc.id.js = "string" /\ IsUuidStr(doc.id.s)
    /\ doc.name.js = "string"
    /\ \A k \in DOMAIN doc.fields : IsUuidStr(k) /\ FieldDocValid(doc.fields[k])
    /\ \A k \in DOMAIN doc.items :
          /\ IsUuidStr(k)
          /\ \A j \in 1..Len(doc.items[k]) :
                /\ doc.items[k][j].field_id.js = "string"
                /\ IsUuidStr(doc.items[k][j].field_id.s)
                /\ ValueDocValid(doc.items[k][j].value)
LoadList(doc) ==
    List(UuidOf(doc.id.s), doc.name.s,
         [f \in {UuidOf(k) : k \in DOMAIN doc.fields} |-> LoadField(doc.fields[UuidStr(f)])],
         [i \in {UuidOf(k) : k \in DOMAIN doc.items} |->
             [j \in 1..Len(doc.items[UuidStr(i)]) |->
                 FieldValue(UuidOf(doc.items[UuidStr(i)][j].field_id.s),
                            LoadValue(doc.items[UuidStr(i)][j].value))]])

\* ---------------------------------------------------------- file system
\* A file holds the text of a JSON document, complete or cut short; a
\* directory lists/<name> holds list.json and list.json.tmp (None: no file).
Complete(doc) == [complete |-> TRUE, doc |-> doc]
Partial(doc) == [complete |-> FALSE, doc |-> doc]
EmptyDir == [list_json |-> None, tmp |-> None]
\* one directory for all the lists
GetListDirShared(list_id) == UuidStr(Unknown)
\* self._lists_dir / str(list_id)
GetListDir(list_id) == UuidStr(list_id)

Mkdir(d, n) == IF n \in DOMAIN d THEN d ELSE DictPut(d, n, EmptyDir)
\* a writer that fills list.json itself
WriteInPlace(d, n, content) == [d EXCEPT ![n].list_json = Some(content)]
WriteTmp(d, n, content) == [d EXCEPT ![n].tmp = Some(content)]
Rename(d, n) == [d EXCEPT ![n] = [list_json |-> d[n].tmp, tmp |-> None]]
\* an except clause that leaves the temporary file
UnlinkNothing(d, n) == d
\* if tmp_file.exists(): tmp_file.unlink()
UnlinkTmp(d, n) ==
    IF n \in DOMAIN d /\ d[n].tmp # None THEN [d EXCEPT ![n].tmp = None] ELSE d

\* PersistenceManager.write_to_disk, run to its end; io names the step that
\* raises, if any.
WriteOutcomes == {"ok", "mkdir_fails", "write_fails", "rename_fails"}
WriteToDisk(d, list, io) ==
    LET n == GetListDir(list.id)
        doc == DumpList(list)
    IN CASE io = "mkdir_fails" -> UnlinkTmp(d, n)
         [] io = "write_fails" -> UnlinkTmp(WriteTmp(Mkdir(d, n), n, Partial(doc)), n)
         [] io = "rename_fails" -> UnlinkTmp(WriteTmp(Mkdir(d, n), n, Complete(doc)), n)
         [] io = "ok" -> Rename(WriteTmp(Mkdir(d, n), n, Complete(doc)), n)

\* PersistenceManager.delete_from_disk: shutil.rmtree removes the files,
\* then the directory.  It raises at its first error: before anything is
\* removed (rmtree_fails), or when the files are gone and the directory
\* cannot be removed (rmdir_fails).
DeleteOutcomes == {"ok", "rmtree_fails", "rmdir_fails"}
\* a delete_from_disk that leaves the directory
DeleteFromDiskKeeps(d, list_id, io) == d
DeleteFromDisk(d, list_id, io) ==
    LET n == GetListDir(list_id)
    IN IF n \notin DOMAIN d THEN d
       ELSE IF io = "ok" THEN DictDel(d, n)
       ELSE IF io = "rmdir_fails" THEN [d EXCEPT ![n] = EmptyDir]
       ELSE d
DeleteFromDiskRaises(d, list_id, io) == GetListDir(list_id) \in DOMAIN d /\ io # "ok"

\* PersistenceManager.load_all: the directories that yield a list.
\* list_dir / "list.json", the file in the directory itself (load_all_raw
\* reads this one), None when it does not exist or the name is no UUID
OwnFile(d, n) == IF ParsesAsUuid(n) THEN d[n].list_json ELSE None
\* list_file = self._get_list_file(UUID(list_dir.name)): the file
\* lists/<str(list_id)>/list.json, None when it does not exist
ListFileOf(d, n) ==
    IF ParsesAsUuid(n) /\ GetListDir(UuidOf(n)) \in DOMAIN d
    THEN d[GetListDir(UuidOf(n))].list_json
    ELSE None
Loadable(d, n) ==
    /\ ParsesAsUuid(n)
    /\ ListFileOf(d, n) # None
    /\ ListFileOf(d, n)[1].complete
    /\ ListDocValid(ListFileOf(d, n)[1].doc)
LoadAll(d) ==
    [id \in {UuidOf(n) : n \in {m \in DOMAIN d : Loadable(d, m)}} |->
        LoadList(d[UuidStr(id)].list_json[1].doc)]

\* PersistenceManager.load_all_raw: json.loads only, keyed by directory name.
RawLoadable(d, n) ==
    /\ ParsesAsUuid(n)
    /\ d[n].list_json # None
    /\ d[n].list_json[1].complete
LoadAllRaw(d) ==
    [n \in {m \in DOMAIN d : RawLoadable(d, m)} |-> d[n].list_json[1].doc]

\* ---------------------------------------------------------------- state
VARIABLES
    lists,      \* ListRepository._lists: list id -> List
    disk,       \* storage/lists: directory name -> its two files
    last,       \* the last repository call: operation, outcome, persistence calls made
    ioFailed,   \* some persistence call has raised since construction
    nextUuid,   \* identifiers handed out so far
    writer,     \* a write_to_disk in progress, step by step
    observed,   \* what the last load_all_raw of a concurrent reader returned
    state_file, \* storage/state.json (None: no file)
    migrator,   \* the startup sequence: DataMigrator.run, then load_all
    registry,   \* FieldHandlerRegistry._handlers: type_name -> handler
    threads     \* the request handlers running in the thread pool

vars ==
    <<lists, disk, last, ioFailed, nextUuid, writer, observed, state_file, migrator,
      registry, threads>>

Idle == [pc |-> "idle"]
\* no request is being handled
NoThreads == <<>>
Ret(op, result, calls) == [op |-> op, result |-> result, calls |-> calls]

\* ---------------------------------------------------------------- inputs
Names == {"Groceries", "Books"}
\* FieldTypeCreateUnion requests
CreateRequests ==
    {[type |-> "boolean", name |-> "Purchased"],
     [type |-> "text", name |-> "Item", multiline |-> FALSE],
     [type |-> "text", name |-> "Notes", multiline |-> TRUE],
     [type |-> "number", name |-> "Qty"],
     [type |-> "url", name |-> "Link"],
     [type |-> "image", name |-> "Photo"]}
Values == {PyBool(TRUE), PyInt(2), PyStr(<<>>), PyStr(<<"a", "b">>)}
\* a request's field_values dict: keys S among K and values for them, the
\* keys in ascending order, and also in descending order when S is all of K
\* but Unknown; the key Unknown gets the value ""
Ascending(S) ==
    [i \in 1..Cardinality(S) |-> CHOOSE x \in S : Cardinality({y \in S : y < x}) = i - 1]
Descending(S) ==
    [i \in 1..Cardinality(S) |-> CHOOSE x \in S : Cardinality({y \in S : y > x}) = i - 1]
DictOf(keys, a) == [i \in 1..Len(keys) |-> FieldValue(keys[i], a[keys[i]])]
FieldValueDicts(K) ==
    UNION {UNION {{DictOf(keys, a) :
                      keys \in {Ascending(S)} \cup
                               (IF S = K \ {Unknown} THEN {Descending(S)} ELSE {})} :
                  a \in {b \in [S -> Values] : Unknown \in S => b[Unknown] = PyStr(<<>>)}} :
           S \in SUBSET K}
Orders == {0, 5}
FieldOrderDicts(K) == UNION {[S -> Orders] : S \in SUBSET K}
Directions == {"up", "down", "sideways"}
\* the identifiers a request names: those present, and one that is not
ListArgs == DOMAIN lists \cup {Unknown}
FieldArgs(list_id) ==
    (IF list_id \in DOMAIN lists THEN DOMAIN lists[list_id].fields ELSE {}) \cup {Unknown}
ItemArgs(list_id) ==
    (IF list_id \in DOMAIN lists THEN DOMAIN lists[list_id].items ELSE {}) \cup {Unknown}
\* the field dicts of the List values handed to add(): fields built from the
\* field classes, under fresh identifiers that follow the list's own; the
\* classes come in the sequence below (a class may come more than once)
SeedFieldTypes ==
    <<[name |-> "Purchased", type |-> "boolean"],
      [name |-> "Item", type |-> "text", multiline |-> FALSE],
      [name |-> "Qty", type |-> "number"],
      [name |-> "Link", type |-> "url"]>>
SeedFieldsOver(ids) ==
    {[f \in ids |-> SeedFieldTypes[k[f]]] :
        k \in {c \in [ids -> 1..Len(SeedFieldTypes)] :
                  \A f, g \in ids : f < g => c[f] <= c[g]}}
SeedFields ==
    UNION {SeedFieldsOver((nextUuid + 2)..(nextUuid + 1 + n)) : n \in 0..MaxSeedFields}

\* ------------------------------------------------------------ repository
Keys(field_values) == {field_values[i].field_id : i \in 1..Len(field_values)}
Orderless(fields) == {f \in DOMAIN fields : ~HasAttr(fields[f], "order")}

\* sorted(list.fields.items(), key=lambda x: x[1].order): a stable sort
SortedFields(fields) ==
    LET Before(g, f) == \/ fields[g].order < fields[f].order
                        \/ fields[g].order = fields[f].order /\ g < f
    IN [i \in 1..Cardinality(DOMAIN fields) |->
            CHOOSE f \in DOMAIN fields :
                Cardinality({g \in DOMAIN fields : Before(g, f)}) = i - 1]
IndexOf(seq, x) == CHOOSE i \in 1..Len(seq) : seq[i] = x

\* a validation of the key set alone
ValidateKeysOnly(list, field_values) == Keys(field_values) = DOMAIN list.fields
\* _validate_field_values: TRUE iff it returns without raising ValueError
ValidateFieldValues(list, field_values) ==
    /\ Keys(field_values) = DOMAIN list.fields
    /\ \A i \in 1..Len(field_values) :
          RegistryValidate(FieldRegistry, list.fields[field_values[i].field_id],
                           field_values[i].value)

\* a delete_field that empties the items
StripEverything(item_values, field_id) == <<>>
\* a delete_field that leaves the items as they are
StripNothing(item_values, field_id) == item_values
\* delete_field's rebuild of one item's values
StripField(item_values, field_id) ==
    LET F[i \in 0..Len(item_values)] ==
            IF i = 0 THEN <<>>
            ELSE IF item_values[i].field_id # field_id
                 THEN Append(F[i - 1], item_values[i])
                 ELSE F[i - 1]
    IN F[Len(item_values)]
\* add_field's backfill of one item's values
Backfill(item_values, field_id, default_value) ==
    Append(item_values, FieldValue(field_id, default_value))

\* the call returns (or raises) before anything is mutated or written
NoChange(op, result) ==
    /\ last' = Ret(op, result, <<>>)
    /\ UNCHANGED <<lists, disk, ioFailed, nextUuid, writer, observed, state_file, migrator, registry, threads>>

\* a write whose failure undoes the mutation
PersistOrRollBack(op, list, ios) ==
    \E io \in ios :
        /\ lists' = IF io = "ok" THEN DictPut(lists, list.id, list) ELSE lists
        /\ disk' = WriteToDisk(disk, list, io)
        /\ last' = Ret(op, IF io = "ok" THEN "ok" ELSE "OSError", <<"write_to_disk">>)
        /\ ioFailed' = (ioFailed \/ io # "ok")
        /\ UNCHANGED <<writer, observed, state_file, migrator, registry, threads>>
\* a mutation that is not written
PersistLater(op, list, ios) ==
    /\ lists' = DictPut(lists, list.id, list)
    /\ last' = Ret(op, "ok", <<>>)
    /\ UNCHANGED <<disk, ioFailed, writer, observed, state_file, migrator, registry, threads>>
\* the in-memory list is now `list`; write_to_disk(list) follows
Persist(op, list, ios) ==
    \E io \in ios :
        /\ lists' = DictPut(lists, list.id, list)
        /\ disk' = WriteToDisk(disk, list, io)
        /\ last' = Ret(op, IF io = "ok" THEN "ok" ELSE "OSError", <<"write_to_disk">>)
        /\ ioFailed' = (ioFailed \/ io # "ok")
        /\ UNCHANGED <<writer, observed, state_file, migrator, registry, threads>>

Add(name, fields, ios) ==
    /\ nextUuid + 1 + Cardinality(DOMAIN fields) <= MaxUuids
    /\ Persist("add", List(nextUuid + 1, name, fields, EmptyDict), ios)
    /\ nextUuid' = nextUuid + 1 + Cardinality(DOMAIN fields)

Get(list_id) ==
    NoChange("get", IF list_id \in DOMAIN lists THEN "ok" ELSE "not_found")

GetAll ==
    NoChange("get_all", "ok")

Update(list_id, name, ios) ==
    IF list_id \notin DOMAIN lists THEN NoChange("update", "not_found")
    ELSE /\ Persist("update",
                    IF name # None THEN [lists[list_id] EXCEPT !.name = name[1]]
                    ELSE lists[list_id], ios)
         /\ UNCHANGED nextUuid

\* a delete that calls delete_from_disk first, and forgets the list only when
\* the directory is gone
DeleteDiskFirst(list_id, ios) ==
    IF list_id \notin DOMAIN lists THEN NoChange("delete", "not_found")
    ELSE \E io \in ios :
            /\ lists' = IF DeleteFromDiskRaises(disk, list_id, io) THEN lists
                        ELSE DictDel(lists, list_id)
            /\ disk' = DeleteFromDisk(disk, list_id, io)
            /\ last' = Ret("delete",
                           IF DeleteFromDiskRaises(disk, list_id, io) THEN "OSError" ELSE "ok",
                           <<"delete_from_disk">>)
            /\ ioFailed' = (ioFailed \/ DeleteFromDiskRaises(disk, list_id, io))
            /\ UNCHANGED <<nextUuid, writer, observed, state_file, migrator, registry, threads>>

Delete(list_id, ios) ==
    IF list_id \notin DOMAIN lists THEN NoChange("delete", "not_found")
    ELSE \E io \in ios :
            /\ lists' = DictDel(lists, list_id)
            /\ disk' = DeleteFromDisk(disk, list_id, io)
            /\ last' = Ret("delete",
                           IF DeleteFromDiskRaises(disk, list_id, io) THEN "OSError" ELSE "ok",
                           <<"delete_from_disk">>)
            /\ ioFailed' = (ioFailed \/ DeleteFromDiskRaises(disk, list_id, io))
            /\ UNCHANGED <<nextUuid, writer, observed, state_file, migrator, registry, threads>>

\* an add_field that gives every new field the order 0
AddFieldUnordered(list_id, field_create, ios) ==
    IF list_id \notin DOMAIN lists THEN NoChange("add_field", "not_found")
    ELSE LET list == lists[list_id]
             field_id == nextUuid + 1
             created == RegistryCreate(FieldRegistry, field_create)
             field == [a \in DOMAIN created \cup {"order"} |->
                          IF a = "order" THEN 0 ELSE created[a]]
         IN /\ nextUuid < MaxUuids
            /\ Persist("add_field",
                       [list EXCEPT
                           !.fields = DictPut(list.fields, field_id, field),
                           !.items = [i \in DOMAIN list.items |->
                               Backfill(list.items[i], field_id,
                                        RegistryDefault(FieldRegistry, field))]],
                       ios)
            /\ nextUuid' = field_id

AddField(list_id, field_create, ios) ==
    IF list_id \notin DOMAIN lists THEN NoChange("add_field", "not_found")
    ELSE LET list == lists[list_id]
             field_id == nextUuid + 1
         IN IF Orderless(list.fields) # {}
            THEN NoChange("add_field", "AttributeError")
            ELSE LET next_order == SetMax({list.fields[f].order : f \in DOMAIN list.fields}, -1) + 1
                     created == RegistryCreate(FieldRegistry, field_create)
                 IN IF ~HasAttr(created, "order")
                    THEN NoChange("add_field", "ValueError")
                    ELSE LET field == SetOrder(created, next_order)
                             default_value == RegistryDefault(FieldRegistry, field)
                         IN /\ nextUuid < MaxUuids
                            /\ Persist("add_field",
                                       [list EXCEPT
                                           !.fields = DictPut(list.fields, field_id, field),
                                           !.items = [i \in DOMAIN list.items |->
                                               Backfill(list.items[i], field_id, default_value)]],
                                       ios)
                            /\ nextUuid' = field_id

DeleteField(list_id, field_id, ios) ==
    IF list_id \notin DOMAIN lists \/ field_id \notin DOMAIN lists[list_id].fields
    THEN NoChange("delete_field", "not_found")
    ELSE LET list == lists[list_id]
         IN /\ Persist("delete_field",
                       [list EXCEPT
                           !.fields = DictDel(list.fields, field_id),
                           !.items = [i \in DOMAIN list.items |->
                                         StripField(list.items[i], field_id)]],
                       ios)
            /\ UNCHANGED nextUuid

ReorderFields(list_id, field_orders, ios) ==
    IF list_id \notin DOMAIN lists THEN NoChange("reorder_fields", "not_found")
    ELSE LET list == lists[list_id]
         IN IF DOMAIN field_orders # DOMAIN list.fields
            THEN NoChange("reorder_fields", "ValueError")
            \* list(field_orders.values()): `list` is the local List, not the builtin
            ELSE IF ~HasAttr(list, "__call__")
            THEN NoChange("reorder_fields", "TypeError")
            ELSE IF Cardinality({field_orders[f] : f \in DOMAIN field_orders})
                        # Cardinality(DOMAIN field_orders)
            THEN NoChange("reorder_fields", "ValueError")
            ELSE IF Orderless(list.fields) # {}
            THEN NoChange("reorder_fields", "ValueError")
            ELSE LET applied == [f \in DOMAIN list.fields |->
                                    SetOrder(list.fields[f], field_orders[f])]
                     sorted_fields == SortedFields(applied)
                     normalized == [f \in DOMAIN applied |->
                                    SetOrder(applied[f], IndexOf(sorted_fields, f) - 1)]
                 IN /\ Persist("reorder_fields", [list EXCEPT !.fields = normalized], ios)
                    /\ UNCHANGED nextUuid

MoveField(list_id, field_id, direction, ios) ==
    IF direction \notin {"up", "down"} THEN NoChange("move_field", "ValueError")
    ELSE IF list_id \notin DOMAIN lists \/ field_id \notin DOMAIN lists[list_id].fields
    THEN NoChange("move_field", "not_found")
    ELSE LET list == lists[list_id]
         IN IF Orderless(list.fields) # {}
            THEN NoChange("move_field", "AttributeError")
            ELSE LET sorted_fields == SortedFields(list.fields)
                     current_idx == IndexOf(sorted_fields, field_id)
                 IN IF direction = "up" /\ current_idx = 1
                    THEN NoChange("move_field", "ValueError")
                    ELSE IF direction = "down" /\ current_idx = Len(sorted_fields)
                    THEN NoChange("move_field", "ValueError")
                    ELSE LET swap_idx == IF direction = "up" THEN current_idx - 1
                                         ELSE current_idx + 1
                             swap_field_id == sorted_fields[swap_idx]
                             swapped == [list.fields EXCEPT
                                            ![field_id] = SetOrder(@, list.fields[swap_field_id].order),
                                            ![swap_field_id] = SetOrder(@, list.fields[field_id].order)]
                         IN /\ Persist("move_field", [list EXCEPT !.fields = swapped], ios)
                            /\ UNCHANGED nextUuid

AddItem(list_id, field_values, ios) ==
    IF list_id \notin DOMAIN lists THEN NoChange("add_item", "not_found")
    ELSE LET list == lists[list_id]
             item_id == nextUuid + 1
         IN IF ~ValidateFieldValues(list, field_values)
            THEN NoChange("add_item", "ValueError")
            ELSE /\ nextUuid < MaxUuids
                 /\ Persist("add_item",
                            [list EXCEPT !.items = DictPut(list.items, item_id, field_values)],
                            ios)
                 /\ nextUuid' = item_id

\* an update_item that keeps the old values in front of the new ones
UpdateItemMerging(list_id, item_id, field_values, ios) ==
    IF list_id \notin DOMAIN lists THEN NoChange("update_item", "not_found")
    ELSE IF item_id \notin DOMAIN lists[list_id].items
    THEN NoChange("update_item", "not_found")
    ELSE LET list == lists[list_id]
         IN IF ~ValidateFieldValues(list, field_values)
            THEN NoChange("update_item", "ValueError")
            ELSE /\ Persist("update_item",
                            [list EXCEPT !.items =
                                DictPut(list.items, item_id,
                                        list.items[item_id] \o field_values)],
                            ios)
                 /\ UNCHANGED nextUuid

UpdateItem(list_id, item_id, field_values, ios) ==
    IF list_id \notin DOMAIN lists THEN NoChange("update_item", "not_found")
    ELSE IF item_id \notin DOMAIN lists[list_id].items
    THEN NoChange("update_item", "not_found")
    ELSE LET list == lists[list_id]
         IN IF ~ValidateFieldValues(list, field_values)
            THEN NoChange("update_item", "ValueError")
            ELSE /\ Persist("update_item",
                            [list EXCEPT !.items = DictPut(list.items, item_id, field_values)],
                            ios)
                 /\ UNCHANGED nextUuid

DeleteItem(list_id, item_id, ios) ==
    IF list_id \notin DOMAIN lists \/ item_id \notin DOMAIN lists[list_id].items
    THEN NoChange("delete_item", "not_found")
    ELSE /\ Persist("delete_item",
                    [lists[list_id] EXCEPT !.items = DictDel(lists[list_id].items, item_id)],
                    ios)
         /\ UNCHANGED nextUuid

\* ------------------------------------------------------------ migration
\* PersistenceManager.write_raw_to_disk: the steps of write_to_disk, on a raw
\* document.
WriteRawToDisk(d, n, doc, io) ==
    CASE io = "mkdir_fails" -> UnlinkTmp(d, n)
      [] io = "write_fails" -> UnlinkTmp(WriteTmp(Mkdir(d, n), n, Partial(doc)), n)
      [] io = "rename_fails" -> UnlinkTmp(WriteTmp(Mkdir(d, n), n, Complete(doc)), n)
      [] io = "ok" -> Rename(WriteTmp(Mkdir(d, n), n, Complete(doc)), n)

\* self.migrations, by name
Migrations == <<"migration_0_add_field_order">>

\* state.json: {"last_migration": migration_index}
StateDoc(migration_index) == [last_migration |-> JNum(migration_index)]
\* a load that ignores the file
LoadMigrationStateFresh(f) == -1
\* _load_migration_state: -1 without a file, and -1 when the file does not parse
LoadMigrationState(f) ==
    IF f = None THEN -1
    ELSE IF ~f[1].complete THEN -1
    ELSE f[1].doc.last_migration.n
\* a save that puts a smaller index into the file
SavedCursorBelow(migration_index) == migration_index - 2
\* the index _save_migration_state puts into the file
SavedCursor(migration_index) == migration_index
\* _save_migration_state: mkdir, then write_text straight into state.json (the
\* file is truncated when it is opened); io names the step that raises, if any
StateOutcomes == {"ok", "mkdir_fails", "write_fails"}
\* a save that writes nothing
SaveNothing(f, migration_index, io) == f
SaveMigrationState(f, migration_index, io) ==
    CASE io = "ok" -> Some(Complete(StateDoc(SavedCursor(migration_index))))
      [] io = "mkdir_fails" -> f
      [] io = "write_fails" -> Some(Partial(StateDoc(SavedCursor(migration_index))))

\* _migration_0_add_field_order, for one raw list document: the fields are
\* iterated in the order of the document (ascending identifier)
FieldIdsInOrder(fields) == Ascending({UuidOf(k) : k \in DOMAIN fields})
NeedsMigration(fields) ==
    IF \E k \in DOMAIN fields : "order" \notin DOMAIN fields[k] THEN TRUE
    ELSE IF {fields[k].order.n : k \in DOMAIN fields} = {0}
         THEN Cardinality(DOMAIN fields) > 1
         ELSE FALSE
\* a step that gives an order to the fields that have none
AssignMissingOrders(fields) ==
    [k \in DOMAIN fields |->
        IF "order" \in DOMAIN fields[k] THEN fields[k]
        ELSE [a \in DOMAIN fields[k] \cup {"order"} |->
                 IF a = "order" THEN JNum(IndexOf(FieldIdsInOrder(fields), UuidOf(k)) - 1)
                 ELSE fields[k][a]]]
\* for idx, field_data in enumerate(fields.values()): field_data["order"] = idx
AssignOrders(fields) ==
    [k \in DOMAIN fields |->
        [a \in DOMAIN fields[k] \cup {"order"} |->
            IF a = "order" THEN JNum(IndexOf(FieldIdsInOrder(fields), UuidOf(k)) - 1)
            ELSE fields[k][a]]]
\* the document is rewritten
NeedsWrite(doc) == DOMAIN doc.fields # {} /\ NeedsMigration(doc.fields)
MigrateDoc(doc) == IF NeedsWrite(doc) THEN [doc EXCEPT !.fields = AssignOrders(@)] ELSE doc
\* the directories whose document the step rewrites
ToMigrate(d) == {n \in DOMAIN LoadAllRaw(d) : NeedsWrite(LoadAllRaw(d)[n])}
\* the storage after the step has rewritten the documents of `done`
Migration0(d, done) ==
    [n \in DOMAIN d |->
        IF n \in done
        THEN WriteRawToDisk(d, n, MigrateDoc(LoadAllRaw(d)[n]), "ok")[n]
        ELSE d[n]]

\* The startup sequence (ListRepository.__init__): no process yet.
MigratorDown ==
    [pc |-> "down", runs |-> 0, cursor |-> -1, idx |-> 0, ranNow |-> <<>>, ran |-> <<>>,
     saves |-> 0, calls |-> <<>>, failedAt |-> None, after |-> None]
\* The repository constructed over an empty storage: the step ran on no list,
\* its index was saved, load_all gave no list.
MigratorServing ==
    [pc |-> "serving", runs |-> 1, cursor |-> -1, idx |-> 1, ranNow |-> <<0>>, ran |-> <<0>>,
     saves |-> 1, calls |-> <<"run", "load_all">>, failedAt |-> None,
     after |-> Some([state_file |-> Some(Complete(StateDoc(0))), disk |-> EmptyDict,
                     ran |-> <<0>>, saves |-> 1])]

\* ------------------------------------------------------- specification
\* The repository after construction on empty storage.
Init ==
    /\ lists = EmptyDict
    /\ disk = EmptyDict
    /\ last = Ret("init", "ok", <<>>)
    /\ ioFailed = FALSE
    /\ nextUuid = 0
    /\ writer = Idle
    /\ observed = EmptyDict
    /\ state_file = Some(Complete(StateDoc(0)))
    /\ migrator = MigratorServing
    /\ registry = FieldRegistry
    /\ threads = NoThreads

\* One repository call, run to its end (requests are served one at a time);
\* wios and dios are the outcomes the file system may give a write and a delete.
Call(wios, dios) ==
    \/ \E name \in Names, fields \in SeedFields : Add(name, fields, wios)
    \/ \E list_id \in ListArgs : Get(list_id)
    \/ GetAll
    \/ \E list_id \in ListArgs, name \in {None} \cup {Some(n) : n \in Names} :
          Update(list_id, name, wios)
    \/ \E list_id \in ListArgs : Delete(list_id, dios)
    \/ \E list_id \in ListArgs, field_create \in CreateRequests :
          AddField(list_id, field_create, wios)
    \/ \E list_id \in ListArgs : \E field_id \in FieldArgs(list_id) :
          DeleteField(list_id, field_id, wios)
    \/ \E list_id \in ListArgs : \E field_orders \in FieldOrderDicts(FieldArgs(list_id)) :
          ReorderFields(list_id, field_orders, wios)
    \/ \E list_id \in ListArgs, direction \in Directions : \E field_id \in FieldArgs(list_id) :
          MoveField(list_id, field_id, direction, wios)
    \/ \E list_id \in ListArgs : \E field_values \in FieldValueDicts(FieldArgs(list_id)) :
          AddItem(list_id, field_values, wios)
    \/ \E list_id \in ListArgs : \E item_id \in ItemArgs(list_id) :
          \E field_values \in FieldValueDicts(FieldArgs(list_id)) :
              UpdateItem(list_id, item_id, field_values, wios)
    \/ \E list_id \in ListArgs : \E item_id \in ItemArgs(list_id) :
          DeleteItem(list_id, item_id, wios)

\* No persistence call fails.
Next == Call({"ok"}, {"ok"})
Spec == Init /\ [][Next]_vars

\* Any persistence call may fail.
FaultyNext == Call(WriteOutcomes, DeleteOutcomes)
SpecFaults == Init /\ [][FaultyNext]_vars

\* ------------------------------------------- write_to_disk, step by step
\* One list, written again and again by the repository while another process
\* (or the next process, after a crash) reads the storage.
WriteId == 1
WriteLists ==
    {List(WriteId, "Groceries", EmptyDict, EmptyDict),
     List(WriteId, "Books", EmptyDict, EmptyDict),
     List(WriteId, "Books", [f \in {WriteId + 1} |-> [name |-> "Purchased", type |-> "boolean"]], EmptyDict)}

\* write_to_disk(list) is entered: the file names are computed
WBegin(list) ==
    /\ writer.pc \in {"idle", "crashed"}
    /\ lists' = DictPut(lists, list.id, list)
    /\ writer' = [pc |-> "mkdir", list |-> list,
                  old |-> IF GetListDir(list.id) \in DOMAIN disk
                          THEN disk[GetListDir(list.id)].list_json ELSE None]
    /\ UNCHANGED <<disk, last, ioFailed, nextUuid, observed, state_file, migrator, registry, threads>>

\* list_dir.mkdir(parents=True, exist_ok=True)
WMkdir ==
    /\ writer.pc = "mkdir"
    /\ disk' = Mkdir(disk, GetListDir(writer.list.id))
    /\ writer' = [writer EXCEPT !.pc = "write"]
    /\ UNCHANGED <<lists, last, ioFailed, nextUuid, observed, state_file, migrator, registry, threads>>

\* tmp_file.write_text(...): the file is created or truncated and filled
WWriteSome ==
    /\ writer.pc = "write"
    /\ disk' = WriteTmp(disk, GetListDir(writer.list.id), Partial(DumpList(writer.list)))
    /\ writer' = [writer EXCEPT !.pc = "writing"]
    /\ UNCHANGED <<lists, last, ioFailed, nextUuid, observed, state_file, migrator, registry, threads>>

WWriteRest ==
    /\ writer.pc = "writing"
    /\ disk' = WriteTmp(disk, GetListDir(writer.list.id), Complete(DumpList(writer.list)))
    /\ writer' = [writer EXCEPT !.pc = "rename"]
    /\ UNCHANGED <<lists, last, ioFailed, nextUuid, observed, state_file, migrator, registry, threads>>

\* tmp_file.rename(list_file), and the return
WRename ==
    /\ writer.pc = "rename"
    /\ disk' = Rename(disk, GetListDir(writer.list.id))
    /\ writer' = [writer EXCEPT !.pc = "idle"]
    /\ UNCHANGED <<lists, last, ioFailed, nextUuid, observed, state_file, migrator, registry, threads>>

\* the step at hand raises: the except clause unlinks the temporary file
WRaise ==
    /\ writer.pc \in {"mkdir", "write", "writing", "rename"}
    /\ disk' = UnlinkTmp(disk, GetListDir(writer.list.id))
    /\ writer' = [pc |-> "idle", list |-> writer.list, old |-> writer.old,
                  raised |-> "OSError"]
    /\ ioFailed' = TRUE
    /\ UNCHANGED <<lists, last, nextUuid, observed, state_file, migrator, registry, threads>>

\* the process dies: no except clause runs; the next process loads the lists
WCrash ==
    /\ writer.pc \in {"mkdir", "write", "writing", "rename"}
    /\ writer' = [writer EXCEPT !.pc = "crashed"]
    /\ lists' = LoadAll(disk)
    /\ UNCHANGED <<disk, last, ioFailed, nextUuid, observed, state_file, migrator, registry, threads>>

\* a reader runs load_all_raw and load_all on the storage as it is now
WRead ==
    /\ observed' = [raw |-> LoadAllRaw(disk), typed |-> LoadAll(disk), during |-> writer]
    /\ UNCHANGED <<lists, disk, last, ioFailed, nextUuid, writer, state_file, migrator, registry, threads>>

WriteInit ==
    /\ lists = EmptyDict
    /\ disk = EmptyDict
    /\ last = Ret("init", "ok", <<>>)
    /\ ioFailed = FALSE
    /\ nextUuid = 0
    /\ writer = Idle
    /\ observed = [raw |-> EmptyDict, typed |-> EmptyDict, during |-> Idle]
    /\ state_file = Some(Complete(StateDoc(0)))
    /\ migrator = MigratorServing
    /\ registry = FieldRegistry
    /\ threads = NoThreads

WriteNext ==
    \/ \E list \in WriteLists : WBegin(list)
    \/ WMkdir
    \/ WWriteSome
    \/ WWriteRest
    \/ WRename
    \/ WRaise
    \/ WCrash
    \/ WRead

SpecWrite == WriteInit /\ [][WriteNext]_vars

\* ------------------------------------------------ write, then load
\* The lists a repository can hold: fields of every class, items that passed
\* _validate_field_values or were backfilled with defaults.
RoundTripId == 1
RoundTripFieldTypes == {RegistryCreate(FieldRegistry, r) : r \in CreateRequests}
RoundTripValues == Values \cup {PyBool(FALSE), PyInt(0)}
RoundTripFields ==
    UNION {[(RoundTripId + 1)..(RoundTripId + n) -> RoundTripFieldTypes] : n \in 0..MaxSeedFields}
\* the items a list with these fields can hold: none, or one item whose values
\* pass validate_value, in either key order
RoundTripItems(fields) ==
    {EmptyDict} \cup
    UNION {{[i \in {RoundTripId + MaxSeedFields + 1} |-> DictOf(keys, a)] :
               keys \in {Ascending(DOMAIN fields), Descending(DOMAIN fields)}} :
           a \in {b \in [DOMAIN fields -> RoundTripValues] :
                     \A f \in DOMAIN fields : RegistryValidate(FieldRegistry, fields[f], b[f])}}
RoundTripLists ==
    UNION {{List(RoundTripId, name, fields, items) : items \in RoundTripItems(fields)} :
           name \in Names, fields \in RoundTripFields}

RtWrite ==
    /\ last.op = "init"
    /\ disk' = WriteToDisk(disk, lists[RoundTripId], "ok")
    /\ observed' = lists
    /\ last' = Ret("write_to_disk", "ok", <<"write_to_disk">>)
    /\ UNCHANGED <<lists, ioFailed, nextUuid, writer, state_file, migrator, registry, threads>>

RtLoad ==
    /\ last.op = "write_to_disk"
    /\ lists' = LoadAll(disk)
    /\ last' = Ret("load_all", "ok", <<"load_all">>)
    /\ UNCHANGED <<disk, ioFailed, nextUuid, writer, observed, state_file, migrator, registry, threads>>

RoundTripInit ==
    /\ lists \in {[id \in {RoundTripId} |-> l] : l \in RoundTripLists}
    /\ disk = EmptyDict
    /\ last = Ret("init", "ok", <<>>)
    /\ ioFailed = FALSE
    /\ nextUuid = MaxUuids
    /\ writer = Idle
    /\ observed = EmptyDict
    /\ state_file = Some(Complete(StateDoc(0)))
    /\ migrator = MigratorServing
    /\ registry = FieldRegistry
    /\ threads = NoThreads

RoundTripNext == RtWrite \/ RtLoad

SpecRoundTrip == RoundTripInit /\ [][RoundTripNext]_vars

\* ------------------------------------------------- handler defaults
\* The constraint values a handler is constructed with: None or an int.
Lengths == {None} \cup {Some(n) : n \in 0..MaxConstraint}
Bounds == {None} \cup {Some(n) : n \in (0 - 2)..MaxConstraint}
\* regex patterns, each as the set of strings re.match accepts: one that
\* accepts every string (r""), one that needs a first character (r".")
Patterns == {None, Some({<<>>, <<"a">>, <<"a", "b">>}), Some({<<"a">>, <<"a", "b">>})}
HandlerConfigs ==
    {BooleanFieldHandler, URLFieldHandler, ImageFieldHandler}
    \cup {TextFieldHandler(lo, hi, p) : lo \in Lengths, hi \in Lengths, p \in Patterns}
    \cup {NumberFieldHandler(lo, hi) : lo \in Bounds, hi \in Bounds}

\* handler.get_default_value() of a handler constructed with any constraints
GetDefaultValue ==
    /\ \E handler \in HandlerConfigs :
          last' = Ret("get_default_value",
                      [handler |-> handler, value |-> HandlerDefault(handler)], <<>>)
    /\ UNCHANGED <<lists, disk, ioFailed, nextUuid, writer, observed, state_file, migrator, registry, threads>>

\* handler.validate_value(value) of the value get_default_value returned
ValidateDefault ==
    /\ last.op = "get_default_value"
    /\ last' = Ret("validate_value",
                   [handler |-> last.result.handler, value |-> last.result.value,
                    raised |-> ~HandlerValidate(last.result.handler, last.result.value)],
                   <<>>)
    /\ UNCHANGED <<lists, disk, ioFailed, nextUuid, writer, observed, state_file, migrator, registry, threads>>

DefaultsNext ==
    \/ GetDefaultValue
    \/ ValidateDefault

SpecDefaults == Init /\ [][DefaultsNext]_vars

\* ------------------------------------------------------ startup sequence
\* ListRepository.__init__ step by step, over a storage written by earlier
\* versions of the program: up to two lists, whose field documents carry an
\* order or none.
BootFieldDocs ==
    {[name |-> JStr("Purchased"), type |-> JStr("boolean")]} \cup
    {[name |-> JStr("Purchased"), type |-> JStr("boolean"), order |-> JNum(o)] : o \in {0, 1}}
BootFields ==
    UNION {[{UuidStr(f) : f \in 3..(2 + n)} -> BootFieldDocs] : n \in 0..MaxSeedFields}
BootDoc(id, fields) ==
    [id |-> JStr(UuidStr(id)), name |-> JStr("Groceries"), fields |-> fields, items |-> EmptyDict]
BootDisks ==
    UNION {{[n \in {UuidStr(id) : id \in ids} |->
                [list_json |-> Some(Complete(BootDoc(UuidOf(n), fs[UuidOf(n)]))), tmp |-> None]] :
               fs \in [ids -> BootFields]} :
           ids \in {{}, {1}, {1, 2}}}

\* a run that goes on after a step raised
AfterStepSwallow(ok) == "save"
\* the next program counter after migrations[idx](): the except clause re-raises
AfterStep(ok) == IF ok THEN "save" ELSE "failed"
\* a constructor that loads the lists whatever run() did
ReadyToLoadAnyway(m) == m.pc \in {"run", "failed"} /\ Len(m.calls) = 1
\* migrator.run() has returned
ReadyToLoad(m) == m.pc = "run" /\ m.idx >= Len(Migrations)

\* run() is entered: the cursor is read
BootStart ==
    /\ migrator.pc = "down"
    /\ migrator.runs < MaxRuns
    /\ migrator' = [migrator EXCEPT !.pc = "run", !.runs = @ + 1,
                                    !.cursor = LoadMigrationState(state_file),
                                    !.idx = LoadMigrationState(state_file) + 1,
                                    !.ranNow = <<>>, !.calls = <<"run">>, !.failedAt = None]
    /\ UNCHANGED <<lists, disk, last, ioFailed, nextUuid, writer, observed, state_file, registry, threads>>

\* self.migrations[idx]() returns: every document that needs it was rewritten
BootStepOk ==
    /\ migrator.pc = "run"
    /\ migrator.idx < Len(Migrations)
    /\ disk' = Migration0(disk, ToMigrate(disk))
    /\ migrator' = [migrator EXCEPT !.pc = AfterStep(TRUE),
                                    !.ranNow = Append(@, migrator.idx),
                                    !.ran = Append(@, migrator.idx)]
    /\ UNCHANGED <<lists, last, ioFailed, nextUuid, writer, observed, state_file, registry, threads>>

\* self.migrations[idx]() raises: load_all_raw raised, or write_raw_to_disk
\* raised for the document `bad` after those of `done` were rewritten
BootStepRaises ==
    /\ migrator.pc = "run"
    /\ migrator.idx < Len(Migrations)
    /\ \/ disk' = disk
       \/ \E bad \in ToMigrate(disk) : \E done \in SUBSET (ToMigrate(disk) \ {bad}) :
             disk' = UnlinkTmp(Migration0(disk, done), bad)
    /\ migrator' = [migrator EXCEPT !.pc = AfterStep(FALSE),
                                    !.failedAt = Some(migrator.idx), !.after = None]
    /\ ioFailed' = TRUE
    /\ UNCHANGED <<lists, last, nextUuid, writer, observed, state_file, registry, threads>>

\* self._save_migration_state(idx)
BootSave ==
    /\ migrator.pc = "save"
    /\ \E io \in StateOutcomes :
          /\ state_file' = SaveMigrationState(state_file, migrator.idx, io)
          /\ migrator' = IF io = "ok"
                         THEN [migrator EXCEPT !.pc = "run", !.idx = @ + 1, !.saves = @ + 1]
                         ELSE [migrator EXCEPT !.pc = "failed", !.after = None]
          /\ ioFailed' = (ioFailed \/ io # "ok")
    /\ UNCHANGED <<lists, disk, last, nextUuid, writer, observed, registry, threads>>

\* self._lists = self._persistence_manager.load_all()
BootLoad ==
    /\ ReadyToLoad(migrator)
    /\ lists' = LoadAll(disk)
    /\ migrator' = [migrator EXCEPT !.pc = "serving", !.calls = Append(@, "load_all"),
                                    !.after = Some([state_file |-> state_file, disk |-> disk,
                                                    ran |-> migrator.ran,
                                                    saves |-> migrator.saves])]
    /\ UNCHANGED <<disk, last, ioFailed, nextUuid, writer, observed, state_file, registry, threads>>

\* the process ends (after serving, or because construction raised)
BootStop ==
    /\ migrator.pc \in {"serving", "failed"}
    /\ lists' = EmptyDict
    /\ migrator' = [migrator EXCEPT !.pc = "down"]
    /\ UNCHANGED <<disk, last, ioFailed, nextUuid, writer, observed, state_file, registry, threads>>

BootInit ==
    /\ lists = EmptyDict
    /\ disk \in BootDisks
    /\ last = Ret("init", "ok", <<>>)
    /\ ioFailed = FALSE
    /\ nextUuid = 0
    /\ writer = Idle
    /\ observed = EmptyDict
    /\ state_file \in {None, Some(Complete(StateDoc(0)))}
    /\ migrator = MigratorDown
    /\ registry = FieldRegistry
    /\ threads = NoThreads

BootNext ==
    \/ BootStart
    \/ BootStepOk
    \/ BootStepRaises
    \/ BootSave
    \/ BootLoad
    \/ BootStop

SpecBoot == BootInit /\ [][BootNext]_vars

\* ------------------------------------------- a repository with a stored list
\* The repository constructed over a storage that holds one list, written by
\* an earlier process: fields of the seed classes, and no item, one item or
\* two items whose values passed _validate_field_values.
StoredId == 1
StoredFields ==
    UNION {SeedFieldsOver((StoredId + 1)..(StoredId + n)) : n \in 0..MaxSeedFields}
StoredItemIds == {StoredId + MaxSeedFields + 1, StoredId + MaxSeedFields + 2}
RequestValues == {PyBool(TRUE), PyInt(2), PyStr(<<>>)}
StoredValues(fields) ==
    {a \in [DOMAIN fields -> RequestValues] :
        \A f \in DOMAIN fields : RegistryValidate(FieldRegistry, fields[f], a[f])}
StoredItems(fields) ==
    {EmptyDict}
    \cup UNION {{[i \in {StoredId + MaxSeedFields + 1} |-> DictOf(keys, a)] :
                    keys \in {Ascending(DOMAIN fields), Descending(DOMAIN fields)}} :
                a \in StoredValues(fields)}
    \cup {[i \in StoredItemIds |-> DictOf(Ascending(DOMAIN fields), a)] :
             a \in StoredValues(fields)}
StoredLists ==
    UNION {{List(StoredId, "Groceries", fields, items) : items \in StoredItems(fields)} :
           fields \in StoredFields}

\* the field_values of an update_item request: a value of each Python type
\* for every field of the list, in either key order; a string no URL handler
\* accepts for every field; and empty strings under a key set that is not the
\* list's (a field missing, an unknown field)
ItemRequests(list_id) ==
    LET F == FieldArgs(list_id) \ {Unknown}
    IN {DictOf(keys, a) : keys \in {Ascending(F), Descending(F)}, a \in [F -> RequestValues]}
       \cup {DictOf(Ascending(F), [f \in F |-> PyStr(<<"a", "b">>)])}
       \cup {DictOf(Ascending(S), [f \in S |-> PyStr(<<>>)]) :
                S \in (SUBSET FieldArgs(list_id)) \ {F}}

StoredInit ==
    /\ \E list \in StoredLists :
          /\ disk = WriteToDisk(EmptyDict, list, "ok")
          /\ lists = LoadAll(WriteToDisk(EmptyDict, list, "ok"))
    /\ last = Ret("init", "ok", <<>>)
    /\ ioFailed = FALSE
    /\ nextUuid = StoredId + MaxSeedFields + 2
    /\ writer = Idle
    /\ observed = EmptyDict
    /\ state_file = Some(Complete(StateDoc(0)))
    /\ migrator = MigratorServing
    /\ registry = FieldRegistry
    /\ threads = NoThreads

StoredNext ==
    \/ \E list_id \in ListArgs : \E field_id \in FieldArgs(list_id) :
          DeleteField(list_id, field_id, {"ok"})
    \/ \E list_id \in ListArgs : \E item_id \in ItemArgs(list_id) :
          \E field_values \in ItemRequests(list_id) :
              UpdateItem(list_id, item_id, field_values, {"ok"})
    \/ \E list_id \in ListArgs : \E item_id \in ItemArgs(list_id) :
          DeleteItem(list_id, item_id, {"ok"})

SpecStored == StoredInit /\ [][StoredNext]_vars

\* ------------------------------------------------- the handler registry
\* A registry built by register calls in any sequence, and asked for handlers.
\* The handlers: the five of deps.get_field_registry, and two more of type
\* names those have.
RegistryHandlers ==
    {BooleanFieldHandler, TextFieldHandler(None, None, None), NumberFieldHandler(None, None),
     URLFieldHandler, ImageFieldHandler,
     TextFieldHandler(Some(1), None, None), NumberFieldHandler(Some(1), None)}
\* the type names get_handler is asked for: the five kinds and one more
TypeNames == Kinds \cup {"date"}

\* registry.register(handler)
RegRegister ==
    /\ \E handler \in RegistryHandlers :
          /\ registry' = Register(registry, handler)
          /\ last' = Ret("register",
                         [handler |-> handler, raised |-> RegisterRaises(registry, handler)],
                         <<>>)
    /\ UNCHANGED <<lists, disk, ioFailed, nextUuid, writer, observed, state_file, migrator,
                   threads>>

\* registry.get_handler(type_name)
RegGetHandler ==
    /\ \E type_name \in TypeNames :
          last' = Ret("get_handler",
                      [type_name |-> type_name,
                       raised |-> GetHandlerRaises(registry, type_name),
                       handler |-> IF GetHandlerRaises(registry, type_name) THEN None
                                   ELSE Some(GetHandler(registry, type_name))],
                      <<>>)
    /\ UNCHANGED <<lists, disk, ioFailed, nextUuid, writer, observed, state_file, migrator,
                   registry, threads>>

\* FieldHandlerRegistry(): no handler yet
RegistryInit ==
    /\ lists = EmptyDict
    /\ disk = EmptyDict
    /\ last = Ret("init", "ok", <<>>)
    /\ ioFailed = FALSE
    /\ nextUuid = 0
    /\ writer = Idle
    /\ observed = EmptyDict
    /\ state_file = None
    /\ migrator = MigratorDown
    /\ registry = EmptyRegistry
    /\ threads = NoThreads

RegistryNext ==
    \/ RegRegister
    \/ RegGetHandler

SpecRegistry == RegistryInit /\ [][RegistryNext]_vars

\* ------------------------------------------------- load_all over any storage
\* Storages with any mix of directories: names that are UUIDs in str(uuid)
\* form, a UUID in another spelling, a name that is no UUID; a directory
\* holds no list.json, one cut short, one that fails List's schema, or a
\* valid one (whose id is the directory's or another).
LoadId == 1
LoadDoc(id, name) ==
    [id |-> JStr(UuidStr(id)), name |-> JStr(name), fields |-> EmptyDict, items |-> EmptyDict]
\* name is a number: List.model_validate_json raises ValidationError
LoadBadDoc(id) ==
    [id |-> JStr(UuidStr(id)), name |-> JNum(0), fields |-> EmptyDict, items |-> EmptyDict]
LoadDirNames == {UuidStr(LoadId), UuidStr(LoadId + 1), UuidUpper(LoadId + 1), <<"notes">>}
LoadDirs ==
    {EmptyDir} \cup
    {[list_json |-> Some(c), tmp |-> None] :
        c \in {Partial(LoadDoc(LoadId, "Groceries")), Complete(LoadBadDoc(LoadId)),
               Complete(LoadDoc(LoadId, "Groceries")), Complete(LoadDoc(LoadId + 1, "Groceries")),
               Complete(LoadDoc(LoadId + 1, "Books"))}}
LoadDisks == UNION {[ns -> LoadDirs] : ns \in SUBSET LoadDirNames}

\* self._lists = persistence.load_all()
LoadFromDisk ==
    /\ lists' = LoadAll(disk)
    /\ last' = Ret("load_all", "ok", <<"load_all">>)
    /\ UNCHANGED <<disk, ioFailed, nextUuid, writer, observed, state_file, migrator, registry,
                   threads>>

LoadInit ==
    /\ lists = EmptyDict
    /\ disk \in LoadDisks
    /\ last = Ret("init", "ok", <<>>)
    /\ ioFailed = FALSE
    /\ nextUuid = LoadId + 2
    /\ writer = Idle
    /\ observed = EmptyDict
    /\ state_file = None
    /\ migrator = MigratorDown
    /\ registry = FieldRegistry
    /\ threads = NoThreads

LoadNext == LoadFromDisk

SpecLoad == LoadInit /\ [][LoadNext]_vars

\* ------------------------------------------- add_field on worker threads
\* main.add_field_to_list is a plain `def`: the server runs each request on
\* a thread of its pool, and the repository (one object, deps.py) takes no
\* lock.  Two requests, each on its own thread, the statements of
\* ListRepository.add_field interleaved in any way.
Workers == {1, 2}
ThreadIdle ==
    [pc |-> "idle", list_id |-> Unknown, field_create |-> None, field_id |-> Unknown,
     next_order |-> -1, field |-> None, todo |-> <<>>, result |-> None]
\* the call returns or raises: the thread is done
ThreadEnds(t, result) ==
    /\ threads' = [threads EXCEPT ![t].pc = "done", ![t].result = Some(result)]
    /\ last' = Ret("add_field", result, <<>>)

\* a request arrives: add_field(list_id, field_create) is entered
AddFieldEnter(t) ==
    /\ threads[t].pc = "idle"
    /\ \E list_id \in ListArgs, field_create \in CreateRequests :
          threads' = [threads EXCEPT ![t].pc = "get", ![t].list_id = list_id,
                                     ![t].field_create = Some(field_create)]
    /\ UNCHANGED <<lists, disk, last, ioFailed, nextUuid, writer, observed, state_file,
                   migrator, registry>>

\* the next statement of add_field on thread t
AddFieldStep(t) ==
    LET th == threads[t]
        list == lists[th.list_id]
    IN /\ th.pc \notin {"idle", "done"}
       /\ CASE th.pc = "get" ->
                 \* list = self.get(list_id); if not list: return None
                 /\ IF th.list_id \notin DOMAIN lists
                    THEN ThreadEnds(t, "not_found")
                    ELSE threads' = [threads EXCEPT ![t].pc = "uuid4"] /\ UNCHANGED last
                 /\ UNCHANGED <<lists, disk, nextUuid>>
            [] th.pc = "uuid4" ->
                 \* field_id = uuid4()
                 /\ nextUuid' = nextUuid + 1
                 /\ threads' = [threads EXCEPT ![t].pc = "next_order",
                                               ![t].field_id = nextUuid + 1]
                 /\ UNCHANGED <<lists, disk, last>>
            [] th.pc = "next_order" ->
                 \* next_order = max((f.order for f in list.fields.values()), default=-1) + 1
                 /\ IF Orderless(list.fields) # {}
                    THEN ThreadEnds(t, "AttributeError")
                    ELSE /\ threads' =
                              [threads EXCEPT
                                  ![t].pc = "create",
                                  ![t].next_order =
                                      SetMax({list.fields[f].order : f \in DOMAIN list.fields},
                                             -1) + 1]
                         /\ UNCHANGED last
                 /\ UNCHANGED <<lists, disk, nextUuid>>
            [] th.pc = "create" ->
                 \* field = create_field_instance(field_create); field.order = next_order
                 /\ LET created == RegistryCreate(registry, th.field_create[1])
                    IN IF ~HasAttr(created, "order")
                       THEN ThreadEnds(t, "ValueError")
                       ELSE /\ threads' =
                                 [threads EXCEPT
                                     ![t].pc = "put",
                                     ![t].field = Some(SetOrder(created, th.next_order))]
                            /\ UNCHANGED last
                 /\ UNCHANGED <<lists, disk, nextUuid>>
            [] th.pc = "put" ->
                 \* list.fields[field_id] = field
                 /\ lists' = [lists EXCEPT ![th.list_id].fields =
                                  DictPut(list.fields, th.field_id, th.field[1])]
                 /\ threads' = [threads EXCEPT ![t].pc = "append",
                                               ![t].todo = Ascending(DOMAIN list.items)]
                 /\ UNCHANGED <<disk, last, nextUuid>>
            [] th.pc = "append" ->
                 \* for item_values in list.items.values(): item_values.append(...)
                 /\ IF th.todo = <<>>
                    THEN threads' = [threads EXCEPT ![t].pc = "write"] /\ UNCHANGED lists
                    ELSE /\ lists' = [lists EXCEPT ![th.list_id].items[Head(th.todo)] =
                                          Backfill(@, th.field_id,
                                                   RegistryDefault(registry, th.field[1]))]
                         /\ threads' = [threads EXCEPT ![t].todo = Tail(th.todo)]
                 /\ UNCHANGED <<disk, last, nextUuid>>
            [] th.pc = "write" ->
                 \* self._persistence_manager.write_to_disk(list); return list
                 /\ disk' = WriteToDisk(disk, list, "ok")
                 /\ threads' = [threads EXCEPT ![t].pc = "done", ![t].result = Some("ok")]
                 /\ last' = Ret("add_field", "ok", <<"write_to_disk">>)
                 /\ UNCHANGED <<lists, nextUuid>>
       /\ UNCHANGED <<ioFailed, writer, observed, state_file, migrator, registry>>

\* the repository holds one stored list; both worker threads are free
ThreadsInit ==
    /\ \E list \in StoredLists :
          /\ disk = WriteToDisk(EmptyDict, list, "ok")
          /\ lists = LoadAll(WriteToDisk(EmptyDict, list, "ok"))
    /\ last = Ret("init", "ok", <<>>)
    /\ ioFailed = FALSE
    /\ nextUuid = StoredId + MaxSeedFields + 2
    /\ writer = Idle
    /\ observed = EmptyDict
    /\ state_file = Some(Complete(StateDoc(0)))
    /\ migrator = MigratorServing
    /\ registry = FieldRegistry
    /\ threads = [t \in Workers |-> ThreadIdle]

ThreadsNext ==
    \/ \E t \in Workers : AddFieldEnter(t)
    \/ \E t \in Workers : AddFieldStep(t)

SpecThreads == ThreadsInit /\ [][ThreadsNext]_vars

\* ================================================================ properties
FieldOrders(fields) == {fields[f].order : f \in DOMAIN fields}
\* the field orders are 0..n-1, each used once
OrdersArePermutation(fields) ==
    /\ Orderless(fields) = {}
    /\ FieldOrders(fields) = 0..(Cardinality(DOMAIN fields) - 1)
\* no list and no document changed, and nothing was written
NothingChanged == lists' = lists /\ disk' = disk /\ last'.calls = <<>>

\* C1: in every list, every item holds exactly one FieldValue per field of
\* the list and none for any other field, after any of add_field,
\* delete_field, add_item, update_item, delete_item.
C1_ItemsMatchFields ==
    \A id \in DOMAIN lists : \A item \in DOMAIN lists[id].items :
        /\ Keys(lists[id].items[item]) = DOMAIN lists[id].fields
        /\ Len(lists[id].items[item]) = Cardinality(DOMAIN lists[id].fields)
\* a field was deleted from a list that holds an item
C1_Witness ==
    /\ last.op = "delete_field" /\ last.result = "ok"
    /\ \E id \in DOMAIN lists : lists[id].items # EmptyDict

\* C2: add_field on a list that has items succeeds and gives every existing
\* item one more FieldValue, for the new field, holding the handler's
\* default; the values the item had stay as they were.
C2_AddFieldBackfills ==
    [][last'.op = "add_field" =>
        \A id \in DOMAIN lists : \A req \in CreateRequests :
            (lists[id].items # EmptyDict /\ AddField(id, req, {"ok"})) =>
                /\ last'.result = "ok"
                /\ \E f \in DOMAIN lists'[id].fields \ DOMAIN lists[id].fields :
                      \A item \in DOMAIN lists[id].items :
                          lists'[id].items[item] =
                              Append(lists[id].items[item],
                                     FieldValue(f, RegistryDefault(FieldRegistry,
                                                                   lists'[id].fields[f])))]_vars

\* C3: reorder_fields with an order for every field of the list and no order
\* given twice succeeds, and leaves the orders 0..n-1, each used once.
C3_ReorderYieldsPermutation ==
    [][last'.op = "reorder_fields" =>
        \A id \in DOMAIN lists : \A field_orders \in FieldOrderDicts(DOMAIN lists[id].fields) :
            (/\ DOMAIN field_orders = DOMAIN lists[id].fields
             /\ \A f, g \in DOMAIN field_orders : field_orders[f] = field_orders[g] => f = g
             /\ ReorderFields(id, field_orders, {"ok"})) =>
                /\ last'.result = "ok"
                /\ OrdersArePermutation(lists'[id].fields)]_vars

\* C4: move_field up or down on a field of the list either is refused as a
\* move past the end, or succeeds and leaves the orders 0..n-1, each used
\* once (also when a delete_field came before).
C4_MoveKeepsPermutation ==
    [][last'.op = "move_field" =>
        \A id \in DOMAIN lists : \A f \in DOMAIN lists[id].fields :
            \A direction \in {"up", "down"} :
                MoveField(id, f, direction, {"ok"}) =>
                    /\ last'.result \in {"ok", "ValueError"}
                    /\ last'.result = "ok" => OrdersArePermutation(lists'[id].fields)]_vars

\* the values miss a field of the list, name a field the list has not, or
\* hold a value the field's handler rejects
InvalidValues(list, field_values) ==
    \/ Keys(field_values) # DOMAIN list.fields
    \/ \E i \in 1..Len(field_values) :
          /\ field_values[i].field_id \in DOMAIN list.fields
          /\ ~RegistryValidate(FieldRegistry, list.fields[field_values[i].field_id],
                               field_values[i].value)

\* C5: add_item whose values miss a field of the list, name a field the list
\* has not, or hold a value the field's handler rejects, raises the validation
\* error; the lists and the documents stay as they were and write_to_disk is
\* not called.  (Stated from the step: an add_item step other than "validation
\* error, nothing changed, nothing written" was not made with such values.)
C5_AddItemRejects ==
    [][last'.op = "add_item" =>
        \/ last'.result = "ValueError" /\ NothingChanged
        \/ \A id \in DOMAIN lists : \A field_values \in FieldValueDicts(FieldArgs(id)) :
              InvalidValues(lists[id], field_values) => ~AddItem(id, field_values, {"ok"})]_vars
\* add_item was refused on a list that has a field
C5_Witness ==
    /\ last.op = "add_item" /\ last.result = "ValueError"
    /\ \E id \in DOMAIN lists : lists[id].fields # EmptyDict

\* the field is the first (up) or the last (down) of the list in sorted order
AtEnd(fields, f, direction) ==
    \/ DOMAIN fields = {f}
    \/ /\ Orderless(fields) = {}
       /\ IndexOf(SortedFields(fields), f) =
              (IF direction = "up" THEN 1 ELSE Cardinality(DOMAIN fields))

\* C6: move_field up on the first field, or down on the last, raises the
\* validation error, and so does a direction other than up and down; no list
\* and no document changes and nothing is written.
C6_MovePastEndRejected ==
    [][last'.op = "move_field" =>
        \A id \in DOMAIN lists : \A f \in DOMAIN lists[id].fields :
            \A direction \in Directions :
                (/\ direction \in {"up", "down"} => AtEnd(lists[id].fields, f, direction)
                 /\ MoveField(id, f, direction, {"ok"})) =>
                    /\ last'.result = "ValueError"
                    /\ NothingChanged]_vars

\* what the reader found for the list being written is the document `file`
\* holds (none, if `file` is no file), whole
ReaderFound(file) ==
    LET n == GetListDir(WriteId)
    IN IF file = None
       THEN n \notin DOMAIN observed.raw /\ WriteId \notin DOMAIN observed.typed
       ELSE /\ file[1].complete
            /\ n \in DOMAIN observed.raw /\ observed.raw[n] = file[1].doc
            /\ WriteId \in DOMAIN observed.typed
            /\ observed.typed[WriteId] = LoadList(file[1].doc)

\* C7: a reader that runs while write_to_disk is under way, or after the
\* process died in it, finds for that list either the whole document it had
\* before the write or the whole new one, never a part of one; and list.json
\* holds one of the two at every step of the write.
C7_AtomicReplace ==
    /\ observed.during.pc # "idle" =>
          \/ ReaderFound(observed.during.old)
          \/ ReaderFound(Some(Complete(DumpList(observed.during.list))))
    /\ (writer.pc # "idle" /\ GetListDir(WriteId) \in DOMAIN disk) =>
          disk[GetListDir(WriteId)].list_json
              \in {writer.old, Some(Complete(DumpList(writer.list)))}
\* the process died between the write of list.json.tmp and the rename, and
\* the reader then found the previous document, which differs from the new
C7_Witness ==
    /\ observed.during.pc = "crashed"
    /\ writer = observed.during
    /\ GetListDir(WriteId) \in DOMAIN disk
    /\ disk[GetListDir(WriteId)].tmp = Some(Complete(DumpList(writer.list)))
    /\ writer.old # None
    /\ writer.old # Some(Complete(DumpList(writer.list)))
    /\ ReaderFound(writer.old)

\* C8: as long as no persistence call has failed, after every call the
\* document of every list in memory is the dump of that list and the storage
\* holds no other list; get and get_all make no persistence call.
C8_WriteThrough ==
    /\ ~ioFailed =>
          /\ DOMAIN disk = {GetListDir(id) : id \in DOMAIN lists}
          /\ \A id \in DOMAIN lists :
                disk[GetListDir(id)] =
                    [list_json |-> Some(Complete(DumpList(lists[id]))), tmp |-> None]
          /\ LoadAll(disk) = lists
    /\ last.op \in {"get", "get_all"} => last.calls = <<>>
\* an item of a list with a field was given new values
C8_Witness ==
    /\ last.op = "update_item" /\ last.result = "ok"
    /\ \E id \in DOMAIN lists : lists[id].fields # EmptyDict /\ lists[id].items # EmptyDict

\* C9: write_to_disk of a list followed by load_all yields, under the same id,
\* a list with the same name, the same fields (class, name, configuration,
\* order) and the same items with the same values in the same sequence.
C9_RoundTrip ==
    last.op = "load_all" =>
        /\ DOMAIN lists = DOMAIN observed
        /\ \A id \in DOMAIN observed :
              /\ lists[id].id = id
              /\ lists[id].name = observed[id].name
              /\ lists[id].fields = observed[id].fields
              /\ lists[id].items = observed[id].items
\* a list with a multi-line text field and an item came back
C9_Witness ==
    /\ last.op = "load_all"
    /\ \E f \in DOMAIN lists[RoundTripId].fields :
          /\ lists[RoundTripId].fields[f].type = "text"
          /\ lists[RoundTripId].fields[f].multiline
    /\ lists[RoundTripId].items # EmptyDict

\* C10: delete of a list the repository holds returns True; after it the list
\* is not found by get, is not among get_all, and its directory is gone.
\* delete of any other id returns False and changes nothing.
C10_Delete ==
    [][last'.op = "delete" =>
        \A id \in ListArgs :
            Delete(id, {"ok"}) =>
                IF id \in DOMAIN lists
                THEN /\ last'.result = "ok"
                     /\ id \notin DOMAIN lists'
                     /\ GetListDir(id) \notin DOMAIN disk'
                     /\ id \notin DOMAIN LoadAll(disk')
                ELSE /\ last'.result = "not_found"
                     /\ lists' = lists /\ disk' = disk]_vars
\* a list was added and deleted, and get then did not find it
C10_Witness ==
    /\ last.op = "get" /\ last.result = "not_found"
    /\ nextUuid > 0 /\ lists = EmptyDict /\ disk = EmptyDict

\* C11: a run of the migrator that follows a successful run leaves state.json
\* and every list document as the successful run left them; it executes no
\* step and saves nothing.
C11_SecondRunChangesNothing ==
    migrator.after # None =>
        /\ state_file = migrator.after[1].state_file
        /\ disk = migrator.after[1].disk
        /\ migrator.ran = migrator.after[1].ran
        /\ migrator.saves = migrator.after[1].saves
\* a second run has ended after a first one that rewrote a document with two
\* fields and saved the cursor
C11_Witness ==
    /\ migrator.pc = "serving" /\ migrator.runs = 2 /\ ~ioFailed
    /\ migrator.ran = <<0>> /\ migrator.ranNow = <<>>
    /\ \E n \in DOMAIN disk :
          {disk[n].list_json[1].doc.fields[k].order.n :
              k \in DOMAIN disk[n].list_json[1].doc.fields} = {0, 1}

C13_StepRaises ==
    migrator.failedAt # None =>
        /\ migrator.pc \in {"failed", "down"}
        /\ LoadMigrationState(state_file) < migrator.failedAt[1]
        /\ \A i \in 1..Len(migrator.ranNow) : migrator.ranNow[i] < migrator.failedAt[1]
        /\ "load_all" \notin {migrator.calls[i] : i \in 1..Len(migrator.calls)}
\* step 0 raised after it had rewritten one document and before another
C13_Witness ==
    /\ migrator.pc = "failed" /\ migrator.failedAt = Some(0)
    /\ ToMigrate(disk) # {}
    /\ \E n \in DOMAIN disk \ ToMigrate(disk) :
          \E k \in DOMAIN disk[n].list_json[1].doc.fields :
              disk[n].list_json[1].doc.fields[k].order.n = 1

\* C14: load_all is called only after run returned, with every step's index
\* saved; a construction in which a step or a save raised calls no load_all
\* and holds no lists; lists are held only by a repository that is serving.
C14_MigrateThenLoad ==
    /\ "load_all" \in {migrator.calls[i] : i \in 1..Len(migrator.calls)} =>
          /\ migrator.calls = <<"run", "load_all">>
          /\ migrator.failedAt = None
          /\ LoadMigrationState(state_file) >= Len(Migrations) - 1
    /\ migrator.pc = "failed" =>
          /\ "load_all" \notin {migrator.calls[i] : i \in 1..Len(migrator.calls)}
          /\ lists = EmptyDict
    /\ lists # EmptyDict => migrator.pc = "serving"
\* a construction over a storage that holds lists has failed
C14_Witness ==
    /\ migrator.pc = "failed" /\ migrator.calls = <<"run">>
    /\ LoadAll(disk) # EmptyDict /\ lists = EmptyDict

\* C15: the cursor the state file holds (-1 when there is no file or it does
\* not parse) never decreases, whatever steps and saves raise.
C15_CursorNeverDecreases ==
    [][LoadMigrationState(state_file') >= LoadMigrationState(state_file)]_vars
\* the cursor was saved in a run that followed a run whose save raised
C15_Witness ==
    /\ state_file = Some(Complete(StateDoc(0)))
    /\ ioFailed /\ migrator.runs >= 2 /\ migrator.saves = 1
    /\ Len(migrator.ran) >= 2

\* C16: over any sequence of runs, no step is executed to completion more
\* than once.
C16_StepsRunOnce ==
    \A i, j \in 1..Len(migrator.ran) : migrator.ran[i] = migrator.ran[j] => i = j

\* C17: validate_value accepts the value get_default_value returns, for
\* every handler and every configuration of its constraints.
C17_DefaultsValid ==
    last.op = "validate_value" => ~last.result.raised

\* C18: when a step of write_to_disk (mkdir, the write of the temporary file,
\* the rename) has raised, the call has ended with the error, the temporary
\* file does not exist and list.json holds what it held when the call began.
C18_FailedWriteKeepsDocument ==
    (writer.pc = "idle" /\ HasAttr(writer, "raised")) =>
        LET n == GetListDir(writer.list.id)
        IN IF n \in DOMAIN disk
           THEN disk[n].tmp = None /\ disk[n].list_json = writer.old
           ELSE writer.old = None
\* a write over an existing, different document has raised
C18_Witness ==
    /\ writer.pc = "idle" /\ HasAttr(writer, "raised")
    /\ writer.old # None
    /\ writer.old[1].doc # DumpList(writer.list)
    /\ GetListDir(writer.list.id) \in DOMAIN disk
    /\ disk[GetListDir(writer.list.id)].list_json = writer.old

\* the documents of the storage are the same before and after the step
\* (directories may have been created, temporary files removed)
DocumentsKept ==
    /\ DOMAIN disk \subseteq DOMAIN disk'
    /\ \A n \in DOMAIN disk' :
          disk'[n].list_json = (IF n \in DOMAIN disk THEN disk[n].list_json ELSE None)
\* the step made the mutation its operation makes, in memory
MutationMade ==
    /\ last'.op = "add" => \E id \in DOMAIN lists' : id \notin DOMAIN lists
    /\ last'.op = "add_item" =>
          \E id \in DOMAIN lists : \E item \in DOMAIN lists'[id].items :
              /\ item \notin DOMAIN lists[id].items
              /\ DOMAIN lists[id].items \subseteq DOMAIN lists'[id].items
    /\ last'.op = "delete_item" =>
          \E id \in DOMAIN lists : \E item \in DOMAIN lists[id].items :
              DOMAIN lists'[id].items = DOMAIN lists[id].items \ {item}
    /\ last'.op = "delete_field" =>
          \E id \in DOMAIN lists : \E f \in DOMAIN lists[id].fields :
              DOMAIN lists'[id].fields = DOMAIN lists[id].fields \ {f}
\* the directory of a list, if there is one
DirOf(d, id) == IF GetListDir(id) \in DOMAIN d THEN Some(d[GetListDir(id)]) ELSE None
\* every list the step touched, in memory or on disk, has its dump as document
TouchedInSync ==
    \A id \in DOMAIN lists' :
        (\/ id \notin DOMAIN lists
         \/ lists'[id] # lists[id]
         \/ DirOf(disk', id) # DirOf(disk, id)) =>
            /\ GetListDir(id) \in DOMAIN disk'
            /\ disk'[GetListDir(id)] =
                   [list_json |-> Some(Complete(DumpList(lists'[id]))), tmp |-> None]

\* C19: a call that is rejected changes nothing and writes nothing; a call
\* that reaches write_to_disk has made its mutation in memory whether the
\* write raises or not; when the write raises the error is the call's result
\* and every document is as before; when it succeeds the list's document is
\* the dump of the list in memory, whatever failed before.
C19_MutateThenPersist ==
    [][/\ last'.calls = <<>> => (lists' = lists /\ disk' = disk)
       /\ last'.calls = <<"write_to_disk">> =>
             /\ MutationMade
             /\ last'.result \in {"ok", "OSError"}
             /\ last'.result = "OSError" => (DocumentsKept /\ ioFailed')
             /\ last'.result = "ok" => TouchedInSync]_vars
\* a write has raised and the list in memory is ahead of its document
C19_Witness ==
    /\ last.result = "OSError" /\ last.calls = <<"write_to_disk">>
    /\ \E id \in DOMAIN lists :
          /\ GetListDir(id) \in DOMAIN disk
          /\ disk[GetListDir(id)].list_json # None
          /\ disk[GetListDir(id)].list_json # Some(Complete(DumpList(lists[id])))
\* after a write that raised, a later write of the list has succeeded
C19_Recovered ==
    /\ ioFailed /\ nextUuid = 1 /\ last.op = "update" /\ last.result = "ok"
    /\ DOMAIN lists = {1}
    /\ disk = [n \in {GetListDir(1)} |->
                  [list_json |-> Some(Complete(DumpList(lists[1]))), tmp |-> None]]

\* C20: reorder_fields on a list the repository holds, with orders whose keys
\* are not exactly the list's field ids or with an order given twice, raises
\* the validation error (ValueError), changes no list and writes nothing.
C20_ReorderRejects ==
    [][last'.op = "reorder_fields" =>
        \A id \in DOMAIN lists : \A field_orders \in FieldOrderDicts(FieldArgs(id)) :
            (/\ \/ DOMAIN field_orders # DOMAIN lists[id].fields
                \/ \E f, g \in DOMAIN field_orders :
                      f # g /\ field_orders[f] = field_orders[g]
             /\ ReorderFields(id, field_orders, {"ok"})) =>
                /\ last'.result = "ValueError"
                /\ NothingChanged]_vars

\* C21: reorder_fields with an order for every field and no order given
\* twice succeeds, and afterwards any two fields stand in the sequence of the
\* orders the request supplied for them.
C21_ReorderKeepsSuppliedSequence ==
    [][last'.op = "reorder_fields" =>
        \A id \in DOMAIN lists : \A field_orders \in FieldOrderDicts(DOMAIN lists[id].fields) :
            (/\ DOMAIN field_orders = DOMAIN lists[id].fields
             /\ \A f, g \in DOMAIN field_orders : field_orders[f] = field_orders[g] => f = g
             /\ ReorderFields(id, field_orders, {"ok"})) =>
                /\ last'.result = "ok"
                /\ Orderless(lists'[id].fields) = {}
                /\ \A a, b \in DOMAIN field_orders :
                      lists'[id].fields[a].order < lists'[id].fields[b].order
                          <=> field_orders[a] < field_orders[b]]_vars

\* C22: move_field up or down on a field that is not at that end succeeds
\* and exchanges the orders of the field and of its neighbour in sorted order;
\* every other field's order and all items are as before.
C22_MoveSwapsNeighbours ==
    [][last'.op = "move_field" =>
        \A id \in DOMAIN lists : \A f \in DOMAIN lists[id].fields :
            \A direction \in {"up", "down"} :
                (/\ ~AtEnd(lists[id].fields, f, direction)
                 /\ MoveField(id, f, direction, {"ok"})) =>
                    /\ last'.result = "ok"
                    /\ Orderless(lists[id].fields) = {}
                    /\ LET sorted_fields == SortedFields(lists[id].fields)
                           current_idx == IndexOf(sorted_fields, f)
                           g == sorted_fields[IF direction = "up" THEN current_idx - 1
                                              ELSE current_idx + 1]
                       IN /\ lists'[id].fields[f].order = lists[id].fields[g].order
                          /\ lists'[id].fields[g].order = lists[id].fields[f].order
                          /\ \A h \in DOMAIN lists[id].fields \ {f, g} :
                                lists'[id].fields[h] = lists[id].fields[h]
                          /\ lists'[id].items = lists[id].items]_vars

\* C23: add_field on a list of the repository succeeds; the new field has an
\* identifier no field of the list had and the order max + 1 (0 in a list
\* without fields); the fields the list had are as before.
C23_AddFieldOrderedLast ==
    [][last'.op = "add_field" =>
        \A id \in DOMAIN lists : \A req \in CreateRequests :
            AddField(id, req, {"ok"}) =>
                /\ last'.result = "ok"
                /\ \E f \in DOMAIN lists'[id].fields \ DOMAIN lists[id].fields :
                      /\ DOMAIN lists'[id].fields = DOMAIN lists[id].fields \cup {f}
                      /\ lists'[id].fields[f].order =
                             SetMax({lists[id].fields[h].order : h \in DOMAIN lists[id].fields},
                                    -1) + 1
                      /\ \A h \in DOMAIN lists[id].fields :
                            lists'[id].fields[h] = lists[id].fields[h]]_vars

\* the values of an item without the value of field f, in their sequence
WithoutValueOf(item_values, f) ==
    LET P == {i \in 1..Len(item_values) : item_values[i].field_id = f}
    IN IF P = {} THEN item_values
       ELSE LET p == CHOOSE i \in P : TRUE
            IN [k \in 1..(Len(item_values) - 1) |->
                   IF k < p THEN item_values[k] ELSE item_values[k + 1]]

\* C24: delete_field of a field of the list returns the list; the field is
\* gone, every other field is exactly as it was (its order is not renumbered),
\* every item has lost its value for the field and keeps its other values in
\* their sequence.
C24_DeleteFieldFrame ==
    [][last'.op = "delete_field" =>
        \A id \in DOMAIN lists : \A f \in DOMAIN lists[id].fields :
            DeleteField(id, f, {"ok"}) =>
                /\ last'.result = "ok"
                /\ DOMAIN lists'[id].fields = DOMAIN lists[id].fields \ {f}
                /\ \A h \in DOMAIN lists'[id].fields :
                      lists'[id].fields[h] = lists[id].fields[h]
                /\ DOMAIN lists'[id].items = DOMAIN lists[id].items
                /\ \A item \in DOMAIN lists[id].items :
                      /\ f \notin Keys(lists'[id].items[item])
                      /\ lists'[id].items[item] = WithoutValueOf(lists[id].items[item], f)
                /\ lists'[id].name = lists[id].name]_vars
\* a field was deleted from a list that keeps another field, and an item
\* keeps its value for that one
C24_Witness ==
    /\ last.op = "delete_field" /\ last.result = "ok"
    /\ \E id \in DOMAIN lists :
          /\ Cardinality(DOMAIN lists[id].fields) = MaxSeedFields - 1
          /\ MaxSeedFields > 1
          /\ \E item \in DOMAIN lists[id].items :
                Keys(lists[id].items[item]) = DOMAIN lists[id].fields

\* C25: update_item of an item of the list with values that pass
\* _validate_field_values makes the supplied values the item's values and
\* leaves every other item, the fields and the name as they were; with values
\* that do not pass, it raises the validation error, changes nothing and
\* writes nothing; with an absent list or item it returns not-found, changes
\* nothing and writes nothing.
C25_UpdateItemReplaces ==
    [][last'.op = "update_item" =>
        \A id \in ListArgs : \A item \in ItemArgs(id) :
            \A field_values \in ItemRequests(id) :
                UpdateItem(id, item, field_values, {"ok"}) =>
                    IF id \notin DOMAIN lists \/ item \notin DOMAIN lists[id].items
                    THEN last'.result = "not_found" /\ NothingChanged
                    ELSE IF InvalidValues(lists[id], field_values)
                    THEN last'.result = "ValueError" /\ NothingChanged
                    ELSE /\ last'.result = "ok"
                         /\ lists'[id].items[item] = field_values
                         /\ DOMAIN lists'[id].items = DOMAIN lists[id].items
                         /\ \A other \in DOMAIN lists[id].items \ {item} :
                               lists'[id].items[other] = lists[id].items[other]
                         /\ lists'[id].fields = lists[id].fields
                         /\ lists'[id].name = lists[id].name]_vars
\* one of two items of a list with fields was given other values, in another
\* key order
C25_Witness ==
    /\ last.op = "update_item" /\ last.result = "ok"
    /\ \E id \in DOMAIN lists : \E a, b \in DOMAIN lists[id].items :
          /\ a # b
          /\ Len(lists[id].items[a]) = MaxSeedFields /\ MaxSeedFields > 1
          /\ lists[id].items[a][1].field_id > lists[id].items[a][2].field_id
          /\ lists[id].items[b][1].field_id < lists[id].items[b][2].field_id

\* the Python type the values of a field of this kind have
TypeOfKind(kind) ==
    CASE kind = "boolean" -> "bool"
      [] kind = "number" -> "int"
      [] OTHER -> "str"

\* C26: every stored FieldValue has the type of its field's kind: a bool for
\* a boolean field, an int that is not a bool for a number field, a str for
\* a text, url or image field.
C26_TypesMatchKinds ==
    \A id \in DOMAIN lists : \A item \in DOMAIN lists[id].items :
        \A i \in 1..Len(lists[id].items[item]) :
            LET fv == lists[id].items[item][i]
            IN fv.field_id \in DOMAIN lists[id].fields =>
                  fv.value.py = TypeOfKind(lists[id].fields[fv.field_id].type)

\* the call returned the not-found value and changed and wrote nothing
NotFound == last'.result = "not_found" /\ NothingChanged

\* C27: a call that names a list the repository does not hold, or (for
\* delete_field, move_field, update_item, delete_item) a field or item the
\* list does not hold, returns the not-found value without raising, changes
\* nothing in memory and writes nothing, whatever its other arguments are.
C27_AbsenceIsNotFound ==
    [][/\ last'.op = "get" => (Get(Unknown) => NotFound)
       /\ last'.op = "update" =>
             \A name \in {None} \cup {Some(n) : n \in Names} :
                 Update(Unknown, name, {"ok"}) => NotFound
       /\ last'.op = "delete" => (Delete(Unknown, {"ok"}) => NotFound)
       /\ last'.op = "add_field" =>
             \A req \in CreateRequests : AddField(Unknown, req, {"ok"}) => NotFound
       /\ last'.op = "reorder_fields" =>
             \A field_orders \in FieldOrderDicts(FieldArgs(Unknown)) :
                 ReorderFields(Unknown, field_orders, {"ok"}) => NotFound
       /\ last'.op = "add_item" =>
             \A field_values \in FieldValueDicts(FieldArgs(Unknown)) :
                 AddItem(Unknown, field_values, {"ok"}) => NotFound
       /\ last'.op = "delete_field" =>
             \A id \in ListArgs : \A f \in FieldArgs(id) :
                 ((id = Unknown \/ f = Unknown) /\ DeleteField(id, f, {"ok"})) => NotFound
       /\ last'.op = "delete_item" =>
             \A id \in ListArgs : \A item \in ItemArgs(id) :
                 ((id = Unknown \/ item = Unknown) /\ DeleteItem(id, item, {"ok"})) => NotFound
       /\ last'.op = "update_item" =>
             \A id \in ListArgs : \A item \in ItemArgs(id) :
                 \A field_values \in FieldValueDicts(FieldArgs(id)) :
                     ((id = Unknown \/ item = Unknown)
                      /\ UpdateItem(id, item, field_values, {"ok"})) => NotFound
       /\ last'.op = "move_field" =>
             \A id \in ListArgs : \A f \in FieldArgs(id) : \A direction \in Directions :
                 ((id = Unknown \/ f = Unknown) /\ MoveField(id, f, direction, {"ok"}))
                     => NotFound]_vars

\* C28: register of a handler whose type_name is registered raises and leaves
\* the registry as it was (get_handler still returns the handler registered
\* first); register of another handler adds it under its type_name and
\* changes no other entry; get_handler returns the handler registered under
\* the type_name and raises for a type_name never registered; the registry of
\* deps.get_field_registry holds the five built-in handlers, each under its
\* own type_name.
C28_Registry ==
    [][/\ last'.op = "register" =>
             LET h == last'.result.handler
             IN IF h.type_name \in DOMAIN registry
                THEN /\ last'.result.raised
                     /\ registry' = registry
                     /\ GetHandler(registry', h.type_name) = GetHandler(registry, h.type_name)
                ELSE /\ ~last'.result.raised
                     /\ DOMAIN registry' = DOMAIN registry \cup {h.type_name}
                     /\ registry'[h.type_name] = h
                     /\ \A t \in DOMAIN registry : registry'[t] = registry[t]
       /\ last'.op = "get_handler" =>
             LET t == last'.result.type_name
             IN /\ registry' = registry
                /\ IF t \in DOMAIN registry
                   THEN ~last'.result.raised /\ last'.result.handler = Some(registry[t])
                   ELSE last'.result.raised /\ last'.result.handler = None
       /\ DOMAIN FieldRegistry = Kinds
       /\ FieldRegistry =
             [t \in Kinds |->
                 CASE t = "boolean" -> BooleanFieldHandler
                   [] t = "text" -> TextFieldHandler(None, None, None)
                   [] t = "number" -> NumberFieldHandler(None, None)
                   [] t = "url" -> URLFieldHandler
                   [] t = "image" -> ImageFieldHandler]]_vars
\* a second handler of a registered type_name was refused, and the registry
\* is the one of deps.get_field_registry
C28_Witness ==
    /\ last.op = "register" /\ last.result.raised
    /\ last.result.handler = TextFieldHandler(Some(1), None, None)
    /\ registry = FieldRegistry

\* the directories of a storage that hold a valid list: the name is a UUID,
\* the directory's list.json exists, is whole, and passes List's schema
ValidDirs(d) ==
    {n \in DOMAIN d :
        /\ OwnFile(d, n) # None
        /\ OwnFile(d, n)[1].complete
        /\ ListDocValid(OwnFile(d, n)[1].doc)}
\* C29: load_all returns, and its result holds exactly the lists of the
\* directories whose name is a UUID and whose list.json exists, parses and
\* passes the schema, each under the directory's id.
C29_LoadAllKeepsValid ==
    last.op = "load_all" =>
        /\ last.result = "ok"
        /\ DOMAIN lists = {UuidOf(n) : n \in ValidDirs(disk)}
        /\ \A n \in ValidDirs(disk) : lists[UuidOf(n)] = LoadList(OwnFile(disk, n)[1].doc)
\* the part that holds: load_all returns, no directory that is not valid
\* yields a list, and every valid directory named str(uuid) yields its own
C29_CanonicalDirsLoaded ==
    last.op = "load_all" =>
        /\ last.result = "ok"
        /\ \A n \in ValidDirs(disk) :
              IsUuidStr(n) => /\ UuidOf(n) \in DOMAIN lists
                              /\ lists[UuidOf(n)] = LoadList(OwnFile(disk, n)[1].doc)
        /\ \A id \in DOMAIN lists : UuidStr(id) \in ValidDirs(disk)

\* C30: when two add_field calls on the same list have run on two threads and
\* both have ended, both returned the list, their two new fields are in the
\* list's fields with distinct orders, and every item holds a value for both.
C30_ConcurrentAddFields ==
    (\A t \in Workers : threads[t].pc = "done" /\ threads[t].list_id = StoredId) =>
        LET list == lists[StoredId]
            f == threads[1].field_id
            g == threads[2].field_id
        IN /\ \A t \in Workers : threads[t].result = Some("ok")
           /\ f # g
           /\ {f, g} \subseteq DOMAIN list.fields
           /\ Orderless(list.fields) = {}
           /\ list.fields[f].order # list.fields[g].order
           /\ \A i \in DOMAIN list.items : {f, g} \subseteq Keys(list.items[i])
\* what the calls do: each raises or returns not-found, and the lists and the
\* storage stay as they were
C30_NoCallGetsThrough ==
    [][/\ lists' = lists
       /\ disk' = disk
       /\ \A t \in Workers :
             threads'[t].pc = "done" =>
                 threads'[t].result \in {Some("not_found"), Some("AttributeError"),
                                         Some("ValueError")}]_vars

\* the raw document of directory n
RawDoc(d, n) == d[n].list_json[1].doc
\* the list has a field, and some field has no order or the fields are
\* several and all of order 0
MustRewrite(doc) ==
    /\ DOMAIN doc.fields # {}
    /\ \/ \E k \in DOMAIN doc.fields : "order" \notin DOMAIN doc.fields[k]
       \/ /\ Cardinality(DOMAIN doc.fields) > 1
          /\ \A k \in DOMAIN doc.fields : doc.fields[k].order = JNum(0)
\* the fields of new are those of old with the orders 0..n-1 by position
OrderedByPosition(old, new) ==
    /\ DOMAIN new.fields = DOMAIN old.fields
    /\ \A k \in DOMAIN old.fields :
          /\ DOMAIN new.fields[k] = DOMAIN old.fields[k] \cup {"order"}
          /\ new.fields[k].order =
                JNum(Cardinality({j \in DOMAIN old.fields : UuidOf(j) < UuidOf(k)}))
          /\ \A a \in DOMAIN old.fields[k] \ {"order"} : new.fields[k][a] = old.fields[k][a]
    /\ new.id = old.id /\ new.name = old.name /\ new.items = old.items
\* C31: a run of the step "add field order" that returns has rewritten the
\* document of a list iff the list has a field and either some field has no
\* order or there are several fields, all of order 0; a rewritten document
\* has the orders 0..n-1 by position on all its fields and is otherwise as
\* before; every other document, and the set of directories, is as before.
C31_AddFieldOrder ==
    [][(migrator.pc = "run" /\ Len(migrator'.ran) > Len(migrator.ran)) =>
          /\ DOMAIN disk' = DOMAIN disk
          /\ \A n \in DOMAIN disk :
                IF MustRewrite(RawDoc(disk, n))
                THEN /\ disk'[n].list_json # None /\ disk'[n].list_json[1].complete
                     /\ disk'[n].tmp = None
                     /\ RawDoc(disk', n) # RawDoc(disk, n)
                     /\ OrderedByPosition(RawDoc(disk, n), RawDoc(disk', n))
                ELSE disk'[n] = disk[n]]_vars
\* the step has run over two lists: one of two fields now in the orders 0, 1,
\* one whose only field has order 1 (not rewritten)
C31_Witness ==
    /\ migrator.pc = "save"
    /\ \E n, m \in DOMAIN disk :
          /\ Cardinality(DOMAIN RawDoc(disk, n).fields) = 2
          /\ {RawDoc(disk, n).fields[k].order : k \in DOMAIN RawDoc(disk, n).fields}
                = {JNum(0), JNum(1)}
          /\ Cardinality(DOMAIN RawDoc(disk, m).fields) = 1
          /\ \A k \in DOMAIN RawDoc(disk, m).fields : RawDoc(disk, m).fields[k].order = JNum(1)

\* C32: when run() has returned, every list document of the storage has an
\* order on each field, and the orders of its n fields are 0..n-1.
C32_OrdersAfterMigration ==
    (migrator.pc = "serving" \/ ReadyToLoad(migrator)) =>
        \A n \in DOMAIN disk :
            LET fields == RawDoc(disk, n).fields
            IN /\ \A k \in DOMAIN fields : "order" \in DOMAIN fields[k]
               /\ {fields[k].order : k \in DOMAIN fields} =
                     {JNum(o) : o \in 0..(Cardinality(DOMAIN fields) - 1)}
\* what holds: a document the step has gone over has an order on each field
\* (a step that is skipped, its index being saved already, goes over none)
C32_OrdersPresentAfterStep ==
    (migrator.pc \in {"save", "serving"} /\ migrator.ranNow # <<>>) =>
        \A n \in DOMAIN disk :
            \A k \in DOMAIN RawDoc(disk, n).fields : "order" \in DOMAIN RawDoc(disk, n).fields[k]

OthersKept(list_id) ==
    \A other \in DOMAIN lists \ {list_id} :
        /\ other \in DOMAIN lists'
        /\ lists'[other] = lists[other]
        /\ DirOf(disk', other) = DirOf(disk, other)
\* C34: a call addressed to one list id, whether it returns or raises, leaves
\* every other list as it was in memory and on disk; update changes at most
\* the name of its list.
C34_OtherListsKept ==
    [][/\ last'.op = "update" =>
             \A id \in ListArgs, name \in {None} \cup {Some(n) : n \in Names} :
                 Update(id, name, {"ok"}) =>
                     /\ OthersKept(id)
                     /\ id \in DOMAIN lists =>
                           /\ lists'[id] = [lists[id] EXCEPT
                                               !.name = IF name = None THEN @ ELSE name[1]]
       /\ last'.op = "delete" =>
             \A id \in ListArgs : Delete(id, {"ok"}) => OthersKept(id)
       /\ last'.op = "add_field" =>
             \A id \in ListArgs, req \in CreateRequests :
                 AddField(id, req, {"ok"}) => OthersKept(id)
       /\ last'.op = "delete_field" =>
             \A id \in ListArgs : \A f \in FieldArgs(id) :
                 DeleteField(id, f, {"ok"}) => OthersKept(id)
       /\ last'.op = "reorder_fields" =>
             \A id \in ListArgs : \A field_orders \in FieldOrderDicts(FieldArgs(id)) :
                 ReorderFields(id, field_orders, {"ok"}) => OthersKept(id)
       /\ last'.op = "move_field" =>
             \A id \in ListArgs : \A f \in FieldArgs(id) : \A direction \in Directions :
                 MoveField(id, f, direction, {"ok"}) => OthersKept(id)
       /\ last'.op = "add_item" =>
             \A id \in ListArgs : \A field_values \in FieldValueDicts(FieldArgs(id)) :
                 AddItem(id, field_values, {"ok"}) => OthersKept(id)
       /\ last'.op = "update_item" =>
             \A id \in ListArgs : \A item \in ItemArgs(id) :
                 \A field_values \in FieldValueDicts(FieldArgs(id)) :
                     UpdateItem(id, item, field_values, {"ok"}) => OthersKept(id)
       /\ last'.op = "delete_item" =>
             \A id \in ListArgs : \A item \in ItemArgs(id) :
                 DeleteItem(id, item, {"ok"}) => OthersKept(id)]_vars
\* two lists with different documents, the name of one just updated
C34_Witness ==
    /\ last.op = "update" /\ last.result = "ok"
    /\ \E a, b \in DOMAIN lists :
          /\ a # b
          /\ lists[a].name # lists[b].name
          /\ DirOf(disk, a) # None /\ DirOf(disk, b) # None
          /\ DirOf(disk, a) # DirOf(disk, b)

\* the other direction
Opposite(direction) == IF direction = "up" THEN "down" ELSE "up"
\* the fields after the orders of f and of its neighbour in sorted order are
\* exchanged
MovedOrders(fields, f, direction) ==
    LET sorted_fields == SortedFields(fields)
        current_idx == IndexOf(sorted_fields, f)
        g == sorted_fields[IF direction = "up" THEN current_idx - 1 ELSE current_idx + 1]
    IN [fields EXCEPT ![f] = SetOrder(@, fields[g].order),
                      ![g] = SetOrder(@, fields[f].order)]
\* C35: on a list whose field orders are pairwise distinct, move_field up or
\* down on a field that is not at that end succeeds, and the opposite
\* move_field on the same field then is possible and gives every field the
\* order it had before the first call.
C35_MoveThenMoveBack ==
    [][last'.op = "move_field" =>
        \A id \in DOMAIN lists : \A f \in DOMAIN lists[id].fields :
            \A direction \in {"up", "down"} :
                (/\ \A a, b \in DOMAIN lists[id].fields :
                       (a # b /\ HasAttr(lists[id].fields[a], "order")
                              /\ HasAttr(lists[id].fields[b], "order"))
                           => lists[id].fields[a].order # lists[id].fields[b].order
                 /\ ~AtEnd(lists[id].fields, f, direction)
                 /\ MoveField(id, f, direction, {"ok"})) =>
                    /\ last'.result = "ok"
                    /\ Orderless(lists'[id].fields) = {}
                    /\ ~AtEnd(lists'[id].fields, f, Opposite(direction))
                    /\ MovedOrders(lists'[id].fields, f, Opposite(direction))
                          = lists[id].fields]_vars

\* the list id whose document on disk is the dump of the list in memory
Stored(id) ==
    /\ id \in DOMAIN lists
    /\ GetListDir(id) \in DOMAIN disk
    /\ disk[GetListDir(id)].list_json = Some(Complete(DumpList(lists[id])))
\* C36 as stated: a delete of a stored list whose delete_from_disk raises has
\* the error as its result, the list is gone from memory, its document is on
\* disk as before, and load_all on that storage yields the list again.
C36_FailedDeleteKeepsDocument ==
    [][(last'.op = "delete" /\ last'.result = "OSError") =>
          \A id \in DOMAIN lists \ DOMAIN lists' :
              Stored(id) =>
                  /\ DOMAIN lists' = DOMAIN lists \ {id}
                  /\ disk'[GetListDir(id)].list_json = disk[GetListDir(id)].list_json
                  /\ id \in DOMAIN LoadAll(disk')
                  /\ LoadAll(disk')[id] = lists[id]]_vars
\* C36, amended: a delete of a stored list whose delete_from_disk raises has
\* the error as its result, the list is gone from memory (and no other), and
\* its directory is still on disk; the directory holds the document as
\* before, and load_all then yields the list again, or it holds no document
\* any more, and load_all then does not yield the list.
C36_FailedDelete ==
    [][(last'.op = "delete" /\ last'.result = "OSError") =>
          /\ last'.calls = <<"delete_from_disk">>
          /\ \E id \in DOMAIN lists : DOMAIN lists' = DOMAIN lists \ {id} /\ id \notin DOMAIN lists'
          /\ \A id \in DOMAIN lists \ DOMAIN lists' :
                /\ \A other \in DOMAIN lists' : lists'[other] = lists[other]
                /\ GetListDir(id) \in DOMAIN disk'
                /\ Stored(id) =>
                      \/ /\ disk'[GetListDir(id)].list_json = disk[GetListDir(id)].list_json
                         /\ id \in DOMAIN LoadAll(disk')
                         /\ LoadAll(disk')[id] = lists[id]
                      \/ /\ disk'[GetListDir(id)].list_json = None
                         /\ id \notin DOMAIN LoadAll(disk')]_vars
\* a delete has raised: the list is not in memory, and the storage still
\* yields it
C36_Witness ==
    /\ last.op = "delete" /\ last.result = "OSError"
    /\ lists = EmptyDict
    /\ DOMAIN LoadAll(disk) # {}

====
